---- MODULE Spec2Model ----
(***************************************************************************)
(* EthCrawler (src/server.js, src/unnamed/part_001): the block-for-date    *)
(* resolver of POST /balance-at-date, the buffered transaction aggregator  *)
(* getTransactions behind POST /transactions and the incremental           *)
(* aggregator of GET /transactions-stream/:address/:startBlock.            *)
(*                                                                         *)
(* Times.  Date values are milliseconds and block timestamps are seconds,  *)
(* both counted from 2015-07-30T00:00:00Z (the ethereumGenesis floor of    *)
(* validateDate) instead of from 1970: the shift is a whole number of      *)
(* seconds, so Math.floor(ms / 1000) and every comparison are unchanged.   *)
(*                                                                         *)
(* Sizes.  One model record stands for Scale records of the indexing API,  *)
(* so that the page size 1000 and the record limit 10000 of the source     *)
(* become 1000 \div Scale and 10000 \div Scale.                             *)
(***************************************************************************)
EXTENDS Integers, Sequences, FiniteSets, TLC

VARIABLES
    \* ---- environment -------------------------------------------------
    head,             \* provider.getBlockNumber(): height of the chain head
    timestamps,       \* provider.getBlock(h).timestamp for h in 0..head
    now,              \* new Date() at validation time (ms)
    total,            \* number of records the indexing API holds for the range
    envPageSize,      \* process.env.TRANSACTIONS_PER_PAGE (0 = unset)
    \* ---- the request being served ------------------------------------
    req,              \* req.body / req.params
    pc,               \* position of the handler between two awaits
    rendered,         \* what res.render / res.status().json was called with
    rpcLog,           \* calls made to the ledger node, in order
    \* ---- /balance-at-date: binary search -----------------------------
    targetTimestamp,
    low,
    high,
    closestBlock,
    \* ---- getTransactions and /transactions-stream --------------------
    page,
    allTransactions,
    reqLog,           \* page numbers requested from the indexing API, in order
    respLog,          \* kind of every response received, in order
    result,           \* how the promise of getTransactions settled
    events,           \* events written to the stream, in order
    client,           \* the connection of the stream's client
    \* ---- price caches (module state of server.js) -------------------
    ethPriceCache,    \* { price, timestamp }
    tokenPriceCache,  \* { prices, timestamp }
    clock,            \* Date.now() (ms)
    calls,            \* the concurrent reads of a price cache
    fetched,          \* history: the last successful refresh of each cache
    \* ---- /balance-at-date: valuation --------------------------------
    ledger,           \* what the node and the price feed answer
    valuation,        \* locals of the handler after the search
    \* ---- /transactions: the branches joined with the aggregation ----
    branches,         \* how getEthPrice and getCurrentBalance settled
    \* ---- repeated calls of getTransactions --------------------------
    runs,             \* the calls, their locals and how each settled
    \* ---- the map callback applied to one raw record ------------------
    mapping,          \* the raw record and the record made from it
    \* ---- inter-page delays ------------------------------------------
    envApiDelay,      \* process.env.API_DELAY (0 = unset)
    timers,           \* history: the delays that have elapsed (ms), in order
    \* ---- /balance-at-date: block fetches of the search -----------------
    fetches           \* history: fetches outstanding, iterations completed

vars == <<head, timestamps, now, total, envPageSize, req, pc, rendered, rpcLog,
          targetTimestamp, low, high, closestBlock,
          page, allTransactions, reqLog, respLog, result, events, client,
          ethPriceCache, tokenPriceCache, clock, calls, fetched,
          ledger, valuation, branches, runs, mapping, envApiDelay, timers,
          fetches>>

envVars == <<envPageSize, envApiDelay>>

\* the state of the specifications of single functions
otherVars == <<runs, mapping>>

chainVars == <<head, timestamps, now>>
searchVars == <<targetTimestamp, low, high, closestBlock>>
aggVars == <<page, allTransactions, reqLog, respLog, result, events>>
priceVars == <<ethPriceCache, tokenPriceCache, clock, calls, fetched>>

----------------------------------------------------------------------------
(* Bounds of the model *)

MaxHead == 4          \* largest chain head
MaxTs == 3            \* largest block timestamp (s after the genesis floor)
Scale == 500          \* records of the API per model record
MaxCallers == 2       \* reads of one price cache, concurrent or not
MaxTicks == 3         \* clock ticks of one behaviour

(* Program constants *)

MAX_PAGES == 10
TRANSACTIONS_PER_PAGE == 1000 \div Scale
API_DELAY == 250

MAX_TRANSACTION_LIMIT == 10000 \div Scale
StreamRecordLimit == 10000 \div Scale
ethereumGenesis == 0

None == [view |-> "none"]

----------------------------------------------------------------------------
(* Input validation helpers *)

AddressInputs == {"missing", "malformed", "valid"}

validateEthereumAddress(address) ==
    IF address = "missing"
    THEN [valid |-> FALSE, error |-> "Address is required"]
    ELSE IF address = "malformed"
    THEN [valid |-> FALSE, error |-> "Invalid Ethereum address format"]
    ELSE [valid |-> TRUE, error |-> ""]

DateMs == {-1000, -1} \cup {500 * k : k \in 0..(2 * (MaxTs + 1))}

DateInputs ==
    {[kind |-> "missing", ms |-> 0], [kind |-> "unparseable", ms |-> 0]}
    \cup {[kind |-> "date", ms |-> m] : m \in DateMs}

NowInputs == {1500, 1000 * (MaxTs + 1)}

validateDateNoFloor(dateString, nowMs) ==
    IF dateString.kind = "missing"
    THEN [valid |-> FALSE, error |-> "Date is required", value |-> 0]
    ELSE IF dateString.kind = "unparseable"
    THEN [valid |-> FALSE, error |-> "Invalid date format", value |-> 0]
    ELSE IF dateString.ms > nowMs
    THEN [valid |-> FALSE, error |-> "Cannot check balance for future dates",
          value |-> 0]
    ELSE [valid |-> TRUE, error |-> "", value |-> dateString.ms]

validateDate(dateString, nowMs) ==
    IF dateString.kind = "missing"
    THEN [valid |-> FALSE, error |-> "Date is required", value |-> 0]
    ELSE IF dateString.kind = "unparseable"
    THEN [valid |-> FALSE, error |-> "Invalid date format", value |-> 0]
    ELSE IF dateString.ms > nowMs
    THEN [valid |-> FALSE, error |-> "Cannot check balance for future dates",
          value |-> 0]
    ELSE IF dateString.ms < ethereumGenesis
    THEN [valid |-> FALSE,
          error |-> "Date cannot be before Ethereum genesis block",
          value |-> 0]
    ELSE [valid |-> TRUE, error |-> "", value |-> dateString.ms]

----------------------------------------------------------------------------
(* The chain as the ledger node shows it at query time *)

NonDecreasing(f, h) == \A i \in 0..(h - 1) : f[i] <= f[i + 1]

Chains(h) == {f \in [0..h -> 0..MaxTs] : NonDecreasing(f, h)}

\* the 500 page of the error handling middleware (asyncHandler -> next(error))
UnexpectedError ==
    [view |-> "index", status |-> 500,
     error |-> "An unexpected error occurred. Please try again later."]

ErrorPage(msg) == [view |-> "index", status |-> 200, error |-> msg]

IdleSearch ==
    /\ targetTimestamp = 0
    /\ low = 0
    /\ high = 0
    /\ closestBlock = 0

\* a form field or URL parameter holding an optional sign and decimal digits
NoStartBlock == [sign |-> 1, digits |-> <<>>]

NoDate == [kind |-> "missing", ms |-> 0]

\* the client is connected; requestsAtClose is the number of page requests
\* that had been sent when the connection closed
IdleClient == client = [connected |-> TRUE, requestsAtClose |-> 0]

IdleAgg ==
    /\ page = 1
    /\ allTransactions = <<>>
    /\ reqLog = <<>>
    /\ respLog = <<>>
    /\ result = [status |-> "pending", value |-> <<>>, reason |-> ""]
    /\ events = <<>>

----------------------------------------------------------------------------
(* The price caches: getEthPrice and getTokenPrices.  Prices are whole     *)
(* dollars.  null is NullPrice; a price object is either {} or holds all   *)
(* five symbols, the only two shapes the code ever builds.                 *)

PRICE_CACHE_DURATION == 5 * 60 * 1000

NullPrice == [isNull |-> TRUE, usd |-> 0]

Usd(n) == [isNull |-> FALSE, usd |-> n]

\* truthiness of a price that is null or a number
Truthy(price) == ~price.isNull /\ price.usd # 0

Symbols == {"USDT", "USDC", "LINK", "UNI", "DAI"}

FeedIds == {"tether", "usd-coin", "chainlink", "uniswap", "dai"}

\* lines 361-367: the feed id each symbol is read from
FeedId(symbol) ==
    CASE symbol = "USDT" -> "tether"
      [] symbol = "USDC" -> "usd-coin"
      [] symbol = "LINK" -> "chainlink"
      [] symbol = "UNI" -> "uniswap"
      [] symbol = "DAI" -> "dai"

\* the object {}
EmptyPrices == [empty |-> TRUE, usd |-> [s \in Symbols |-> 0]]

ColdEthCache == [price |-> NullPrice, timestamp |-> 0]

ColdTokenCache == [prices |-> EmptyPrices, timestamp |-> 0]

\* Date.now() is read PRICE_CACHE_DURATION or more after 1970, so that the
\* timestamp 0 of a cold cache is never fresh
ClockStart == PRICE_CACHE_DURATION

\* ---- the price feed --------------------------------------------------

EthFeedPrices == {2000, 3000}

\* response.data of the ether request: { ethereum: { usd } } or {}
EthFeedBodies ==
    {[hasEthereum |-> TRUE, usd |-> p] : p \in EthFeedPrices}
        \cup {[hasEthereum |-> FALSE, usd |-> 0]}

TransportFailure == [arrived |-> FALSE, body |-> [hasEthereum |-> FALSE, usd |-> 0]]

Arrived(body) == [arrived |-> TRUE, body |-> body]

FeedPricesA == [id \in FeedIds |-> CASE id = "chainlink" -> 15
                                     [] id = "uniswap" -> 6
                                     [] OTHER -> 1]

FeedPricesB == [id \in FeedIds |-> CASE id = "chainlink" -> 16
                                     [] id = "uniswap" -> 7
                                     [] OTHER -> 1]

\* response.data of the token request: an object keyed by feed id
TokenFeedBodies ==
    {[ids |-> FeedIds, usd |-> FeedPricesA],
     [ids |-> FeedIds, usd |-> FeedPricesB],
     [ids |-> {}, usd |-> FeedPricesA]}
        \cup {[ids |-> FeedIds \ {id}, usd |-> FeedPricesA] : id \in FeedIds}

TokenTransportFailure == [arrived |-> FALSE, body |-> [ids |-> {}, usd |-> FeedPricesA]]

\* ---- getEthPrice -----------------------------------------------------

EthCacheIsFreshAtLimit(cache, nowMs) ==
    Truthy(cache.price) /\ (nowMs - cache.timestamp) <= PRICE_CACHE_DURATION

\* line 173
EthCacheIsFresh(cache, nowMs) ==
    Truthy(cache.price) /\ (nowMs - cache.timestamp) < PRICE_CACHE_DURATION

\* line 181: response.data.ethereum.usd throws a TypeError on {}
EthBodyThrows(body) == ~body.hasEthereum

EthPriceCatchForgets(cache) == NullPrice

\* lines 185-187: the catch block
EthPriceCatch(cache) == cache.price

EthPriceSettlesStampsFailure(cache, nowMs, feed) ==
    IF feed.arrived /\ ~EthBodyThrows(feed.body)
    THEN [value |-> Usd(feed.body.usd),
          cache |-> [price |-> Usd(feed.body.usd), timestamp |-> nowMs],
          refreshed |-> TRUE]
    ELSE [value |-> EthPriceCatch(cache),
          cache |-> [price |-> cache.price, timestamp |-> nowMs],
          refreshed |-> FALSE]

\* lines 177-183 and the catch: the awaited feed call settles.  The result
\* is the returned value, the cache afterwards and whether the try block
\* completed.
EthPriceSettles(cache, nowMs, feed) ==
    IF feed.arrived /\ ~EthBodyThrows(feed.body)
    THEN [value |-> Usd(feed.body.usd),
          cache |-> [price |-> Usd(feed.body.usd), timestamp |-> nowMs],
          refreshed |-> TRUE]
    ELSE [value |-> EthPriceCatch(cache), cache |-> cache,
          refreshed |-> FALSE]

\* ---- getTokenPrices --------------------------------------------------

\* lines 352-353
TokenCacheIsFresh(cache, nowMs) ==
    ~cache.prices.empty /\ (nowMs - cache.timestamp) < PRICE_CACHE_DURATION

TokenPriceAllOrNothing(data, symbol) ==
    IF data.ids = FeedIds THEN data.usd[FeedId(symbol)] ELSE 0

\* lines 362-366: response.data[id]?.usd || 0
TokenPrice(data, symbol) ==
    IF FeedId(symbol) \in data.ids THEN data.usd[FeedId(symbol)] ELSE 0

\* lines 361-367
PricesFrom(data) ==
    [empty |-> FALSE, usd |-> [s \in Symbols |-> TokenPrice(data, s)]]

\* line 373: tokenPriceCache.prices || {}
TokenPricesCatch(cache) == cache.prices

\* lines 357-371 and the catch: the awaited feed call settles
TokenPricesSettle(cache, nowMs, feed) ==
    IF feed.arrived
    THEN [value |-> PricesFrom(feed.body),
          cache |-> [prices |-> PricesFrom(feed.body), timestamp |-> nowMs],
          refreshed |-> TRUE]
    ELSE [value |-> TokenPricesCatch(cache), cache |-> cache,
          refreshed |-> FALSE]

\* history: no refresh has succeeded; otherwise the body the feed answered
\* to the last refresh that succeeded and the clock reading of its read
NoEthRefresh == [any |-> FALSE, body |-> TransportFailure.body, at |-> 0]

NoTokenRefresh == [any |-> FALSE, body |-> TokenTransportFailure.body, at |-> 0]

Refresh(body, nowMs) == [any |-> TRUE, body |-> body, at |-> nowMs]

\* a read that has not started; once started it records the clock reading
\* (now), the cache and the history it found (seen, last), the number of
\* feed calls in flight, and at its return the answer of the feed, the
\* history it found then (known) and the returned value
IdleCall(fn) ==
    [fn |-> fn, pc |-> "idle", now |-> 0,
     seen |-> IF fn = "eth" THEN ColdEthCache ELSE ColdTokenCache,
     inFlight |-> 0, calledFeed |-> FALSE, outcome |-> "pending",
     feed |-> IF fn = "eth" THEN TransportFailure ELSE TokenTransportFailure,
     last |-> IF fn = "eth" THEN NoEthRefresh ELSE NoTokenRefresh,
     known |-> IF fn = "eth" THEN NoEthRefresh ELSE NoTokenRefresh,
     value |-> IF fn = "eth" THEN NullPrice ELSE EmptyPrices,
     refreshed |-> FALSE]

Callers == 1..MaxCallers

TickMs == PRICE_CACHE_DURATION \div 3

IdleCalls == calls = [c \in Callers |-> IdleCall("eth")]

IdlePrices ==
    /\ ethPriceCache = ColdEthCache
    /\ tokenPriceCache = ColdTokenCache
    /\ clock = ClockStart
    /\ fetched = [eth |-> NoEthRefresh, tokens |-> NoTokenRefresh]

----------------------------------------------------------------------------
(* POST /balance-at-date: the valuation at the resolved block.  An amount  *)
(* is an exact decimal number: the sum of units[d] / 10^d over the scales  *)
(* d of Decimals, so that no power of ten is ever computed.                *)

Decimals == {0, 6, 18}

Scaled(units, d) == [e \in Decimals |-> IF e = d THEN units ELSE 0]

Zero == [e \in Decimals |-> 0]

Plus(a, b) == [e \in Decimals |-> a[e] + b[e]]

Times(a, k) == [e \in Decimals |-> a[e] * k]

\* a sum of non-negative terms is positive when one of its terms is
Positive(a) == \E e \in Decimals : a[e] > 0

\* Number.prototype.toFixed(digits) for 2 and 6 digits: the decimal string
\* with that many fraction digits, given as its count of 1/10^digits.  The
\* term of scale 18 is below 10^-6 of a unit for every units[18] an integer
\* of the model can hold, so it never changes the rounded digits.
toFixed(a, digits) ==
    IF digits = 2
    THEN a[0] * 100 + (a[6] + 5000) \div 10000
    ELSE a[0] * 1000000 + a[6]

\* a field of the view that is null
Null == [isNull |-> TRUE, value |-> Zero, fixed |-> 0]

\* a field of the view holding number.toFixed(2)
Fixed2(number) ==
    [isNull |-> FALSE, value |-> number, fixed |-> toFixed(number, 2)]

\* lines 49-80
POPULAR_TOKENS ==
    <<[symbol |-> "USDT", decimals |-> 6],
      [symbol |-> "USDC", decimals |-> 6],
      [symbol |-> "LINK", decimals |-> 18],
      [symbol |-> "UNI", decimals |-> 18],
      [symbol |-> "DAI", decimals |-> 18]>>

\* ethers.formatUnits(balance, decimals): the decimal string of
\* balance / 10^decimals
formatUnits(balance, decimals) == [units |-> balance, decimals |-> decimals]

\* ethers.formatEther(wei)
formatEther(wei) == formatUnits(wei, 18)

\* parseFloat of a decimal string
parseFloat(string) == Scaled(string.units, string.decimals)

\* what one read of the node at the resolved block answers: the call
\* rejects, or it resolves to an amount in the smallest unit
Reads == {[ok |-> FALSE, amount |-> 0], [ok |-> TRUE, amount |-> 0],
          [ok |-> TRUE, amount |-> 4000]}

EthFeedOutcomes == {TransportFailure} \cup {Arrived(b) : b \in EthFeedBodies}

TokenFeedOutcomes ==
    {TokenTransportFailure} \cup {Arrived(b) : b \in TokenFeedBodies}

Ledgers ==
    [native : Reads, tokens : [Symbols -> Reads],
     ethFeed : {TransportFailure, Arrived([hasEthereum |-> TRUE, usd |-> 2000])},
     tokenFeed : {TokenTransportFailure,
                  Arrived([ids |-> FeedIds, usd |-> FeedPricesA]),
                  Arrived([ids |-> FeedIds \ {"chainlink"},
                           usd |-> FeedPricesA])}]

DefaultLedger ==
    [native |-> [ok |-> TRUE, amount |-> 4000],
     tokens |-> [s \in Symbols |-> [ok |-> TRUE,
                                    amount |-> IF s = "USDT" THEN 4000 ELSE 0]],
     ethFeed |-> Arrived([hasEthereum |-> TRUE, usd |-> 2000]),
     tokenFeed |-> Arrived([ids |-> FeedIds, usd |-> FeedPricesA])]

NullBalance == [isNull |-> TRUE, amount |-> 0]

\* the calls of getTransactions that a behaviour of SpecRepeat makes: two
\* with the same address and block range, one with another range
Runs == {"first", "second", "other"}

\* no call has been made
IdleRuns ==
    runs = [ctl |-> [r \in Runs |->
                        [pc |-> "idle",
                         result |-> [status |-> "pending", value |-> <<>>,
                                     reason |-> ""]]],
            locals |-> [r \in Runs |-> [page |-> 1, allTransactions |-> <<>>]]]

\* neither branch has settled
IdleMapping == mapping = [pc |-> "idle", tx |-> <<>>, out |-> <<>>]

IdleTimers == timers = <<>>

IdleFetches == fetches = [outstanding |-> 0, iterations |-> 0]

IdleBranches ==
    branches = [price |-> [status |-> "pending", value |-> NullPrice],
                balance |-> [status |-> "pending",
                             value |-> [units |-> 0, decimals |-> 0]]]

IdleValuation ==
    valuation = [ethBalance |-> NullBalance, ethPrice |-> NullPrice,
                 priceStatus |-> "pending", tokenPrices |-> EmptyPrices,
                 tokenPriceStatus |-> "pending", tokenBalances |-> <<>>,
                 nonZeroTokens |-> <<>>]

----------------------------------------------------------------------------
(* POST /balance-at-date: validation, then the binary search *)

InitBalance ==
    /\ head \in 0..MaxHead
    /\ timestamps \in Chains(head)
    /\ now \in NowInputs
    /\ total = 0
    /\ envPageSize = 0
    /\ envApiDelay = 0
    /\ req \in [route : {"balance-at-date"}, address : AddressInputs,
                  date : DateInputs, startBlock : {NoStartBlock}]
    /\ pc = "start"
    /\ rendered = None
    /\ rpcLog = <<>>
    /\ IdleSearch
    /\ IdleAgg
    /\ IdleClient
    /\ IdlePrices
    /\ IdleCalls
    /\ ledger = DefaultLedger
    /\ IdleValuation
    /\ IdleBranches
    /\ IdleRuns
    /\ IdleMapping
    /\ IdleTimers
    /\ IdleFetches

\* the same request over one chain, with every answer of the node and of
\* the price feed to the valuation
InitValuation ==
    /\ head = 1
    /\ timestamps = [h \in 0..1 |-> h]
    /\ now = 1500
    /\ total = 0
    /\ envPageSize = 0
    /\ envApiDelay = 0
    /\ req = [route |-> "balance-at-date", address |-> "valid",
              date |-> [kind |-> "date", ms |-> 1000],
              startBlock |-> NoStartBlock]
    /\ pc = "start"
    /\ rendered = None
    /\ rpcLog = <<>>
    /\ IdleSearch
    /\ IdleAgg
    /\ IdleClient
    /\ IdlePrices
    /\ IdleCalls
    /\ ledger \in Ledgers
    /\ IdleValuation
    /\ IdleBranches
    /\ IdleRuns
    /\ IdleMapping
    /\ IdleTimers
    /\ IdleFetches

\* lines 379-395: everything up to the first await
BalanceValidate ==
    /\ req.route = "balance-at-date"
    /\ pc = "start"
    /\ LET addressValidation == validateEthereumAddress(req.address)
           dateValidation == validateDate(req.date, now)
       IN  IF ~addressValidation.valid
           THEN /\ rendered' = ErrorPage(addressValidation.error)
                /\ pc' = "done"
                /\ UNCHANGED targetTimestamp
           ELSE IF ~dateValidation.valid
           THEN /\ rendered' = ErrorPage(dateValidation.error)
                /\ pc' = "done"
                /\ UNCHANGED targetTimestamp
           ELSE /\ targetTimestamp' = dateValidation.value \div 1000
                /\ pc' = "getBlockNumber"
                /\ UNCHANGED rendered
    /\ UNCHANGED <<chainVars, client, priceVars, ledger, valuation, branches, otherVars, timers, fetches, total, envVars, req, rpcLog, low, high,
                   closestBlock, aggVars>>

InitialClosestZero(h) == 0

InitialClosest(h) == h

\* lines 398-400: provider.getBlockNumber() resolved
BalanceGetBlockNumber ==
    /\ req.route = "balance-at-date"
    /\ pc = "getBlockNumber"
    /\ rpcLog' = Append(rpcLog, <<"getBlockNumber", 0>>)
    /\ low' = 0
    /\ high' = head
    /\ closestBlock' = InitialClosest(head)
    /\ pc' = "search"
    /\ UNCHANGED <<chainVars, client, priceVars, ledger, valuation, branches, otherVars, timers, fetches, total, envVars, req, rendered,
                   targetTimestamp, aggVars>>

\* line 399 or 404: the awaited node call rejects; asyncHandler hands the
\* error to the error handling middleware
BalanceNodeCallFails ==
    /\ req.route = "balance-at-date"
    /\ pc \in {"getBlockNumber", "awaitBlock"}
    /\ IF pc = "awaitBlock"
       THEN /\ fetches' = [fetches EXCEPT !.outstanding = @ - 1]
            /\ UNCHANGED rpcLog
       ELSE /\ rpcLog' = Append(rpcLog, <<"getBlockNumber", 0>>)
            /\ UNCHANGED fetches
    /\ rendered' = UnexpectedError
    /\ pc' = "done"
    /\ UNCHANGED <<chainVars, client, priceVars, ledger, valuation, branches,
                   otherVars, timers, total, envVars, req, searchVars,
                   aggVars>>

AfterGetBlockNoWait == "search"

\* line 404: the loop awaits the block before it goes on
AfterGetBlock == "awaitBlock"

\* lines 402-404: the loop condition holds, provider.getBlock(mid) is called
BalanceSearchCall ==
    /\ req.route = "balance-at-date"
    /\ pc = "search"
    /\ low <= high
    /\ rpcLog' = Append(rpcLog, <<"getBlock", (low + high) \div 2>>)
    /\ fetches' = [fetches EXCEPT !.outstanding = @ + 1]
    /\ pc' = AfterGetBlock
    /\ UNCHANGED <<chainVars, client, priceVars, ledger, valuation, branches,
                   otherVars, timers, total, envVars, req, rendered,
                   searchVars, aggVars>>

SearchesUpperHalfOnTie(blockTimestamp, target) == blockTimestamp <= target

\* line 406: the candidate is discarded with the lower half
SearchesUpperHalf(blockTimestamp, target) == blockTimestamp < target

StopsOnExactMatch(blockTimestamp, target, mid) ==
    IF blockTimestamp = target THEN low - 1 ELSE mid - 1

\* line 409
NextHigh(blockTimestamp, target, mid) == mid - 1

\* lines 404-411: provider.getBlock(mid) resolved, the iteration completes
BalanceSearchStep ==
    /\ req.route = "balance-at-date"
    /\ pc = "awaitBlock"
    /\ LET mid == (low + high) \div 2
           block == [timestamp |-> timestamps[mid]]
       IN  IF SearchesUpperHalf(block.timestamp, targetTimestamp)
           THEN /\ low' = mid + 1
                /\ UNCHANGED <<high, closestBlock>>
           ELSE /\ high' = NextHigh(block.timestamp, targetTimestamp, mid)
                /\ closestBlock' = mid
                /\ UNCHANGED low
    /\ fetches' = [outstanding |-> fetches.outstanding - 1,
                   iterations |-> fetches.iterations + 1]
    /\ pc' = "search"
    /\ UNCHANGED <<chainVars, client, priceVars, ledger, valuation, branches,
                   otherVars, timers, total, envVars, req, rendered, rpcLog,
                   targetTimestamp, aggVars>>

\* line 402: the loop condition fails, closestBlock is the resolved block
BalanceSearchExit ==
    /\ req.route = "balance-at-date"
    /\ pc = "search"
    /\ low > high
    /\ pc' = "resolved"
    /\ UNCHANGED <<chainVars, client, priceVars, ledger, valuation, branches, otherVars, timers, fetches, total, envVars, req, rendered, rpcLog,
                   searchVars, aggVars>>


----------------------------------------------------------------------------
(* POST /balance-at-date: the price reads, the valuation and the page *)

\* lines 170-189: one call of getEthPrice, from the read of the clock to
\* the return
getEthPrice(cache, nowMs, feed) ==
    IF EthCacheIsFresh(cache, nowMs)
    THEN [value |-> cache.price, cache |-> cache, refreshed |-> FALSE]
    ELSE EthPriceSettles(cache, nowMs, feed)

\* lines 349-375: one call of getTokenPrices
getTokenPrices(cache, nowMs, feed) ==
    IF TokenCacheIsFresh(cache, nowMs)
    THEN [value |-> cache.prices, cache |-> cache, refreshed |-> FALSE]
    ELSE TokenPricesSettle(cache, nowMs, feed)

\* line 425: !ethBalance, of null or of a BigInt
BalanceIsFalsy(ethBalance) == ethBalance.isNull \/ ethBalance.amount = 0

\* lines 414-429: Promise.allSettled of the native balance read and the two
\* price reads.  The three branches share no state, so the order in which
\* they settle is not observable and they settle in one step.
BalanceSettle ==
    /\ req.route = "balance-at-date"
    /\ pc = "resolved"
    /\ LET ethBalance == IF ledger.native.ok
                         THEN [isNull |-> FALSE, amount |-> ledger.native.amount]
                         ELSE NullBalance
           eth == getEthPrice(ethPriceCache, clock, ledger.ethFeed)
           tok == getTokenPrices(tokenPriceCache, clock, ledger.tokenFeed)
       IN  /\ rpcLog' = Append(rpcLog, <<"getBalance", closestBlock>>)
           /\ ethPriceCache' = eth.cache
           /\ tokenPriceCache' = tok.cache
           /\ fetched' = [eth |-> IF eth.refreshed
                                  THEN Refresh(ledger.ethFeed.body, clock)
                                  ELSE fetched.eth,
                          tokens |-> IF tok.refreshed
                                     THEN Refresh(ledger.tokenFeed.body, clock)
                                     ELSE fetched.tokens]
           /\ IF BalanceIsFalsy(ethBalance)
              THEN /\ rendered' =
                          ErrorPage("Failed to fetch balance at specified date")
                   /\ pc' = "done"
                   /\ UNCHANGED valuation
              ELSE /\ valuation' =
                          [valuation EXCEPT !.ethBalance = ethBalance,
                                            !.ethPrice = eth.value,
                                            !.priceStatus = "fulfilled",
                                            !.tokenPrices = tok.value,
                                            !.tokenPriceStatus = "fulfilled"]
                   /\ pc' = "tokenBalances"
                   /\ UNCHANGED rendered
    /\ UNCHANGED <<chainVars, client, clock, calls, ledger, branches, otherVars, timers, fetches, total, envVars,
                   req, searchVars, aggVars>>

getTokenBalanceAtBlockAnswersOne(read, decimals) ==
    IF read.ok THEN formatUnits(read.amount, decimals) ELSE formatUnits(1, 0)

\* lines 335-344: the contract call resolved, or it rejected and the catch
\* block answers '0'
getTokenBalanceAtBlock(read, decimals) ==
    IF read.ok THEN formatUnits(read.amount, decimals) ELSE formatUnits(0, 0)

\* lines 432-452: the entry of one token
TokenEntry(token, tokenPrices) ==
    LET balance == getTokenBalanceAtBlock(ledger.tokens[token.symbol],
                                          token.decimals)
        balanceNum == parseFloat(balance)
        price == tokenPrices.usd[token.symbol]
        value == Times(balanceNum, price)
    IN  [symbol |-> token.symbol, decimals |-> token.decimals,
         balance |-> balance,
         balanceFormatted |-> toFixed(balanceNum, 6),
         price |-> price,
         value |-> value,
         valueFormatted |-> toFixed(value, 2)]

KeepsEveryToken(token) == TRUE

\* line 457: the filter predicate
HasBalance(token) == Positive(parseFloat(token.balance))

\* line 457: tokenBalances.filter(...)
RECURSIVE NonZeroTokens(_)
NonZeroTokens(list) ==
    IF list = <<>> THEN <<>>
    ELSE IF HasBalance(Head(list))
    THEN <<Head(list)>> \o NonZeroTokens(Tail(list))
    ELSE NonZeroTokens(Tail(list))

\* lines 431-457: the five token reads settle (each catches its own
\* error) and the zero balances are filtered out
BalanceTokenBalances ==
    /\ req.route = "balance-at-date"
    /\ pc = "tokenBalances"
    /\ LET tokenBalances ==
               [i \in 1..Len(POPULAR_TOKENS) |->
                    TokenEntry(POPULAR_TOKENS[i], valuation.tokenPrices)]
       IN  /\ valuation' =
                  [valuation EXCEPT !.tokenBalances = tokenBalances,
                                    !.nonZeroTokens =
                                        NonZeroTokens(tokenBalances)]
           /\ rpcLog' = rpcLog \o [i \in 1..Len(POPULAR_TOKENS) |->
                                       <<"balanceOf", closestBlock>>]
    /\ pc' = "blockDate"
    /\ UNCHANGED <<chainVars, client, priceVars, ledger, branches, otherVars, timers, fetches, total, envVars, req,
                   rendered, searchVars, aggVars>>

\* Array.prototype.reduce((sum, token) => sum + token.value, 0)
RECURSIVE SumValues(_)
SumValues(list) ==
    IF list = <<>> THEN Zero ELSE Plus(Head(list).value, SumValues(Tail(list)))

PortfolioTotalOfTokens(ethValue, totalTokenValue) == totalTokenValue

\* line 463
PortfolioTotal(ethValue, totalTokenValue) == Plus(ethValue, totalTokenValue)

\* lines 459-484: the totals, provider.getBlock(closestBlock) resolved, and
\* the page
BalanceRender ==
    /\ req.route = "balance-at-date"
    /\ pc = "blockDate"
    /\ LET nonZeroTokens == valuation.nonZeroTokens
           ethPrice == valuation.ethPrice
           formattedEthBalance == formatEther(valuation.ethBalance.amount)
           ethValue == IF Truthy(ethPrice)
                       THEN Times(parseFloat(formattedEthBalance), ethPrice.usd)
                       ELSE Zero
           totalTokenValue == SumValues(nonZeroTokens)
           totalPortfolioValue == PortfolioTotal(ethValue, totalTokenValue)
       IN  rendered' =
               [view |-> "balance", status |-> 200,
                address |-> req.address, date |-> req.date,
                blockTimestamp |-> timestamps[closestBlock],
                ethBalance |-> formattedEthBalance,
                ethBalanceValue |-> IF Truthy(ethPrice) THEN Fixed2(ethValue)
                                   ELSE Null,
                ethPrice |-> ethPrice,
                tokenBalances |-> nonZeroTokens,
                totalPortfolioValue |-> Fixed2(totalPortfolioValue),
                blockNumber |-> closestBlock,
                hasTokens |-> Len(nonZeroTokens) > 0,
                errors |-> [priceError |-> valuation.priceStatus = "rejected",
                            tokenPriceError |->
                                valuation.tokenPriceStatus = "rejected"]]
    /\ rpcLog' = Append(rpcLog, <<"getBlock", closestBlock>>)
    /\ pc' = "done"
    /\ UNCHANGED <<chainVars, client, priceVars, ledger, valuation, branches, otherVars, timers, fetches, total,
                   envVars, req, searchVars, aggVars>>

\* line 465: provider.getBlock(closestBlock) rejects
BalanceBlockDateFails ==
    /\ req.route = "balance-at-date"
    /\ pc = "blockDate"
    /\ rpcLog' = Append(rpcLog, <<"getBlock", closestBlock>>)
    /\ rendered' = UnexpectedError
    /\ pc' = "done"
    /\ UNCHANGED <<chainVars, client, priceVars, ledger, valuation, branches, otherVars, timers, fetches, total,
                   envVars, req, searchVars, aggVars>>

----------------------------------------------------------------------------
(* The indexing API (Etherscan txlist) as a deterministic record set with   *)
(* failures: the range holds `total` records in descending block order.    *)

Min(a, b) == IF a < b THEN a ELSE b

MaxTotal == MAX_TRANSACTION_LIMIT + TRANSACTIONS_PER_PAGE + 1

RECURSIVE Dec(_)
\* the decimal string of n, as its sequence of digits
Dec(n) == IF n < 10 THEN <<n>> ELSE Append(Dec(n \div 10), n % 10)

RECURSIVE parseIntFrom(_, _)
parseIntFrom(digits, acc) ==
    IF digits = <<>> THEN acc
    ELSE parseIntFrom(Tail(digits), 10 * acc + Head(digits))

\* parseInt of a string of decimal digits
parseInt(digits) == parseIntFrom(digits, 0)

BlockOf(i) == MaxTotal - i

ErrorFlagOf(i) == i % 3 = 0

\* the i-th raw record of the range: numeric fields are strings
RawRecord(i) ==
    [hash |-> i,
     blockNumber |-> Dec(BlockOf(i)),
     isError |-> IF ErrorFlagOf(i) THEN "1" ELSE "0"]

NoDataMessage == "No transactions found"

WindowMessage ==
    "Result window is too large, PageNo x Offset size must be less than or equal to 10000"

OtherMessages == {"NOTOK", "Max rate limit reached"}

\* page p of size `offset` of a range that holds n records
PageBodyOf(n, p, offset) ==
    IF (p - 1) * offset >= n
    THEN [status |-> "0", message |-> NoDataMessage, result |-> <<>>]
    ELSE [status |-> "1", message |-> "OK",
          result |-> [k \in 1..Min(offset, n - (p - 1) * offset)
                          |-> RawRecord((p - 1) * offset + k)]]

\* the body the API answers page p of size `offset` with, when it answers
PageBody(p, offset) == PageBodyOf(total, p, offset)

FailureBodies ==
    {[status |-> "0", message |-> m, result |-> <<>>] :
        m \in OtherMessages \cup {WindowMessage}}

Bodies(p, offset) == {PageBody(p, offset)} \cup FailureBodies

KindOf(body) ==
    IF body.status = "1" THEN "ok"
    ELSE IF body.message = NoDataMessage THEN "nodata"
    ELSE IF body.message = WindowMessage THEN "window"
    ELSE "error"

LogEntry(body) == [kind |-> KindOf(body), count |-> Len(body.result)]

----------------------------------------------------------------------------
(* Record normalisation (the map callback of both aggregators) *)

Normalize(tx) ==
    [hash |-> tx.hash,
     blockNumber |-> parseInt(tx.blockNumber),
     isError |-> tx.isError = "1"]

MapNormalize(records) == [k \in DOMAIN records |-> Normalize(records[k])]

----------------------------------------------------------------------------
(* Numbers of the map callback.  The raw fields are decimal strings of up  *)
(* to 22 digits and the callback computes with IEEE 754 doubles, so both   *)
(* are kept exactly: a natural number is the sequence of its limbs in base *)
(* 10^4, least significant first, without leading zero limbs; a double is  *)
(* m * 2^e with m at most 2^53.                                           *)

Base == 10 ^ 4

Big(n) == IF n = 0 THEN <<>> ELSE <<n>>

Limb(a, i) == IF i <= Len(a) THEN a[i] ELSE 0

RECURSIVE Trim(_)
Trim(a) ==
    IF a = <<>> \/ a[Len(a)] # 0 THEN a ELSE Trim(SubSeq(a, 1, Len(a) - 1))

RECURSIVE AddFrom(_, _, _, _)
AddFrom(a, b, i, carry) ==
    IF i > Len(a) /\ i > Len(b)
    THEN Big(carry)
    ELSE <<(Limb(a, i) + Limb(b, i) + carry) % Base>>
            \o AddFrom(a, b, i + 1, (Limb(a, i) + Limb(b, i) + carry) \div Base)

BigAdd(a, b) == AddFrom(a, b, 1, 0)

RECURSIVE SubFrom(_, _, _, _)
SubFrom(a, b, i, borrow) ==
    IF i > Len(a)
    THEN <<>>
    ELSE IF Limb(a, i) - Limb(b, i) - borrow < 0
         THEN <<Limb(a, i) - Limb(b, i) - borrow + Base>>
                 \o SubFrom(a, b, i + 1, 1)
         ELSE <<Limb(a, i) - Limb(b, i) - borrow>> \o SubFrom(a, b, i + 1, 0)

\* a - b, for a >= b
BigSub(a, b) == Trim(SubFrom(a, b, 1, 0))

RECURSIVE LessAt(_, _, _)
LessAt(a, b, i) ==
    IF i = 0 THEN FALSE
    ELSE IF a[i] # b[i] THEN a[i] < b[i]
    ELSE LessAt(a, b, i - 1)

BigLess(a, b) ==
    IF Len(a) # Len(b) THEN Len(a) < Len(b) ELSE LessAt(a, b, Len(a))

BigOdd(a) == a # <<>> /\ a[1] % 2 = 1

RECURSIVE TimesFrom(_, _, _, _)
TimesFrom(a, k, i, carry) ==
    IF i > Len(a)
    THEN Big(carry)
    ELSE <<(a[i] * k + carry) % Base>>
            \o TimesFrom(a, k, i + 1, (a[i] * k + carry) \div Base)

\* a * k, for a limb k
BigTimes(a, k) == IF k = 0 THEN <<>> ELSE TimesFrom(a, k, 1, 0)

\* a * Base^n
ShiftLimbs(a, n) == IF a = <<>> THEN a ELSE [i \in 1..n |-> 0] \o a

RECURSIVE MulFrom(_, _, _)
MulFrom(a, b, i) ==
    IF i > Len(b) THEN <<>>
    ELSE BigAdd(ShiftLimbs(BigTimes(a, b[i]), i - 1), MulFrom(a, b, i + 1))

BigMul(a, b) == MulFrom(a, b, 1)

Double(a) == BigTimes(a, 2)

RECURSIVE HalfFrom(_, _, _)
\* the limbs 1..i of floor(a / 2)
HalfFrom(a, i, rem) ==
    IF i = 0 THEN <<>>
    ELSE Append(HalfFrom(a, i - 1, (rem * Base + a[i]) % 2),
                (rem * Base + a[i]) \div 2)

\* floor(a / 2)
Half(a) == Trim(HalfFrom(a, Len(a), 0))

RECURSIVE ShiftLeft(_, _)
\* a * 2^k
ShiftLeft(a, k) ==
    IF k = 0 \/ a = <<>> THEN a ELSE ShiftLeft(Double(a), k - 1)

RECURSIVE ShiftRight(_, _)
\* floor(a / 2^k)
ShiftRight(a, k) ==
    IF k = 0 \/ a = <<>> THEN a ELSE ShiftRight(Half(a), k - 1)

\* the k-th digit of a decimal string, counted from its end
DigitFromEnd(digits, k) ==
    IF k <= Len(digits) THEN digits[Len(digits) + 1 - k] ELSE 0

\* BigInt of a string of decimal digits
BigInt(digits) ==
    Trim([i \in 1..((Len(digits) + 3) \div 4) |->
              DigitFromEnd(digits, 4 * i - 3)
            + 10 * DigitFromEnd(digits, 4 * i - 2)
            + 100 * DigitFromEnd(digits, 4 * i - 1)
            + 1000 * DigitFromEnd(digits, 4 * i)])

RECURSIVE ScaleUp(_, _, _, _)
\* p / q = (P / q) * 2^E with q <= P < 2 q, from p < q; j is the next
\* power of two to try
ScaleUp(p, q, E, j) ==
    IF j = 0 THEN [P |-> Double(p), Q |-> q, E |-> E - 1]
    ELSE IF BigLess(ShiftLeft(p, j), q)
         THEN ScaleUp(ShiftLeft(p, j), q, E - j, j \div 2)
         ELSE ScaleUp(p, q, E, j \div 2)

RECURSIVE ScaleDown(_, _, _, _)
\* p / q = (p / Q) * 2^E with Q <= p < 2 Q, from q <= p
ScaleDown(p, q, E, j) ==
    IF j = 0 THEN [P |-> p, Q |-> q, E |-> E]
    ELSE IF BigLess(p, ShiftLeft(q, j))
         THEN ScaleDown(p, q, E, j \div 2)
         ELSE ScaleDown(p, ShiftLeft(q, j), E + j, j \div 2)

\* one more bit of the quotient, by long division
Bit(d, Q) ==
    LET twice == Double(d.R)
    IN  IF BigLess(twice, Q)
        THEN [m |-> Double(d.m), R |-> twice]
        ELSE [m |-> BigAdd(Double(d.m), Big(1)), R |-> BigSub(twice, Q)]

RECURSIVE Bits(_, _, _)
\* n more bits of the quotient
Bits(d, Q, n) ==
    IF n = 0 \/ d.m = <<>> THEN d ELSE Bits(Bit(d, Q), Q, n - 1)

\* round to nearest, ties to even: is the 53-bit quotient m with
\* remainder R / Q rounded up?
RoundsUp(m, R, Q) ==
    \/ BigLess(Q, Double(R))
    \/ Double(R) = Q /\ BigOdd(m)

\* the double nearest to p / q, for q > 0 (the numbers of a record stay
\* within the range of the normal doubles)
Float64(p, q) ==
    IF p = <<>> THEN [m |-> <<>>, e |-> 0]
    ELSE LET s == IF BigLess(p, q) THEN ScaleUp(p, q, 0, 64)
                  ELSE ScaleDown(p, q, 0, 64)
             d == Bits([m |-> Big(1), R |-> BigSub(s.P, s.Q)], s.Q, 52)
         IN  [m |-> IF RoundsUp(d.m, d.R, s.Q) THEN BigAdd(d.m, Big(1))
                    ELSE d.m,
              e |-> s.E - 52]

\* x * y and x / y of doubles
Times64(x, y) ==
    LET r == Float64(BigMul(x.m, y.m), Big(1))
    IN  IF r.m = <<>> THEN r ELSE [m |-> r.m, e |-> r.e + x.e + y.e]

Div64(x, y) ==
    LET r == Float64(x.m, y.m)
    IN  IF r.m = <<>> THEN r ELSE [m |-> r.m, e |-> r.e + x.e - y.e]

\* Number.prototype.toFixed(6) of a double x >= 0, as the number of
\* millionths it prints: the integer n nearest to x * 10^6, the larger one
\* of two
toFixed6(x) ==
    LET scaled == BigMul(x.m, <<0, 100>>)
    IN  IF x.e >= 0
        THEN ShiftLeft(scaled, x.e)
        ELSE ShiftRight(BigAdd(Double(scaled), ShiftLeft(Big(1), -x.e)),
                        1 - x.e)

\* 10^18, the wei of one ether; 10^9, the wei of one gwei
WeiPerEther == ShiftLimbs(Big(100), 4)

WeiPerGwei == ShiftLimbs(Big(10), 2)

\* line 234 and 245: parseFloat(ethers.formatEther(tx.value)); formatEther
\* prints value / 10^18 exactly and parseFloat takes the nearest double
ethValue(tx) == Float64(BigInt(tx.value), WeiPerEther)

\* line 235 and 236: parseFloat(ethers.formatUnits(tx.gasPrice, 'gwei'))
gasPrice(tx) == Float64(BigInt(tx.gasPrice), WeiPerGwei)

\* line 236: parseFloat(gasPrice) * parseFloat(tx.gasUsed) / 1e9
transactionFee(tx) ==
    Div64(Times64(gasPrice(tx), Float64(BigInt(tx.gasUsed), Big(1))),
          Float64(WeiPerGwei, Big(1)))

\* lines 245 and 249: the two amounts of the record made from tx, in
\* millionths
Amounts(tx) ==
    [valueFormatted |-> toFixed6(ethValue(tx)),
     transactionFee |-> toFixed6(transactionFee(tx))]

----------------------------------------------------------------------------
(* Start block validation and the first steps shared by POST /transactions  *)
(* and GET /transactions-stream                                            *)

AggHead == 3 * MaxHead

NaN == [nan |-> TRUE, num |-> 0]

\* parseInt of a start block string: NaN without a leading digit
parseIntSigned(text) ==
    IF text.digits = <<>> THEN NaN
    ELSE [nan |-> FALSE, num |-> text.sign * parseInt(text.digits)]

StartBlockInputs ==
    {NoStartBlock,
     [sign |-> -1, digits |-> <<1>>],
     [sign |-> 1, digits |-> <<0>>],
     [sign |-> 1, digits |-> Dec(AggHead)],
     [sign |-> 1, digits |-> Dec(AggHead + 1)]}

validateBlockNumberNoFuture(blockNumber, currentBlock) ==
    LET num == parseIntSigned(blockNumber)
    IN  IF num.nan
        THEN [valid |-> FALSE, error |-> "Block number must be a valid number",
              value |-> 0]
        ELSE IF num.num < 0
        THEN [valid |-> FALSE, error |-> "Block number cannot be negative",
              value |-> 0]
        ELSE [valid |-> TRUE, error |-> "", value |-> num.num]

validateBlockNumber(blockNumber, currentBlock) ==
    LET num == parseIntSigned(blockNumber)
    IN  IF num.nan
        THEN [valid |-> FALSE, error |-> "Block number must be a valid number",
              value |-> 0]
        ELSE IF num.num < 0
        THEN [valid |-> FALSE, error |-> "Block number cannot be negative",
              value |-> 0]
        ELSE IF num.num > currentBlock
        THEN [valid |-> FALSE, error |-> "Block number cannot be in the future",
              value |-> 0]
        ELSE [valid |-> TRUE, error |-> "", value |-> num.num]

\* res.status(400).json({ error })
BadRequest(msg) == [view |-> "json", status |-> 400, error |-> msg]

AggRoutes == {"transactions", "transactions-stream"}

ValidationFailure(msg) ==
    IF req.route = "transactions-stream" THEN BadRequest(msg) ELSE ErrorPage(msg)

AggAddressCheckSkipped(address) == TRUE

\* server.js line 287, part_001 line 196
AggAddressAccepted(address) == validateEthereumAddress(address).valid

\* server.js lines 283-289, part_001 lines 192-198: the address is validated
AggValidate ==
    /\ req.route \in AggRoutes
    /\ pc = "start"
    /\ IF ~AggAddressAccepted(req.address)
       THEN /\ rendered' =
                   ValidationFailure(validateEthereumAddress(req.address).error)
            /\ pc' = "done"
       ELSE /\ pc' = "getBlockNumber"
            /\ UNCHANGED rendered
    /\ UNCHANGED <<chainVars, client, priceVars, ledger, valuation, branches, otherVars, timers, fetches, total, envVars, req, rpcLog,
                   searchVars, aggVars>>

\* server.js lines 292-298, part_001 lines 200-213: provider.getBlockNumber()
\* resolved and the start block is validated against it
AggGetBlockNumber ==
    /\ req.route \in AggRoutes
    /\ pc = "getBlockNumber"
    /\ rpcLog' = Append(rpcLog, <<"getBlockNumber", 0>>)
    /\ LET currentBlock == head
           blockValidation == validateBlockNumber(req.startBlock, currentBlock)
       IN  IF ~blockValidation.valid
           THEN /\ rendered' = ValidationFailure(blockValidation.error)
                /\ pc' = "done"
           ELSE /\ pc' = IF req.route = "transactions-stream"
                         THEN "initial" ELSE "loop"
                /\ UNCHANGED rendered
    /\ UNCHANGED <<chainVars, client, priceVars, ledger, valuation, branches, otherVars, timers, fetches, total, envVars, req, searchVars,
                   aggVars>>

\* server.js line 292, part_001 line 200: provider.getBlockNumber() rejected;
\* asyncHandler hands the error to the error handling middleware
AggGetBlockNumberFails ==
    /\ req.route \in AggRoutes
    /\ pc = "getBlockNumber"
    /\ rpcLog' = Append(rpcLog, <<"getBlockNumber", 0>>)
    /\ rendered' = UnexpectedError
    /\ pc' = "done"
    /\ UNCHANGED <<chainVars, client, priceVars, ledger, valuation, branches, otherVars, timers, fetches, total, envVars, req, searchVars,
                   aggVars>>

----------------------------------------------------------------------------
(* getTransactions (buffered mode) and POST /transactions *)

Fulfilled(v) == [status |-> "fulfilled", value |-> v, reason |-> ""]

Rejected(msg) == [status |-> "rejected", value |-> <<>>, reason |-> msg]

InitTransactions ==
    /\ head = AggHead
    /\ timestamps = [h \in 0..AggHead |-> 0]
    /\ now = 0
    /\ total \in 0..MaxTotal
    /\ envPageSize = 0
    /\ envApiDelay = 0
    /\ req \in [route : {"transactions"}, address : AddressInputs,
                  date : {NoDate}, startBlock : StartBlockInputs]
    /\ pc = "start"
    /\ rendered = None
    /\ rpcLog = <<>>
    /\ IdleSearch
    /\ IdleAgg
    /\ IdleClient
    /\ IdlePrices
    /\ IdleCalls
    /\ ledger = DefaultLedger
    /\ IdleValuation
    /\ IdleBranches
    /\ IdleRuns
    /\ IdleMapping
    /\ IdleTimers
    /\ IdleFetches

\* what the node and the price feed answer to the two other branches
JoinLedgers ==
    {[DefaultLedger EXCEPT !.native = n, !.ethFeed = f] :
        n \in Reads,
        f \in {TransportFailure, Arrived([hasEthereum |-> TRUE, usd |-> 2000])}}

\* a valid request with every answer to the price and balance branches
InitJoin ==
    /\ head = AggHead
    /\ timestamps = [h \in 0..AggHead |-> 0]
    /\ now = 0
    /\ total \in 0..MaxTotal
    /\ envPageSize = 0
    /\ envApiDelay = 0
    /\ req = [route |-> "transactions", address |-> "valid", date |-> NoDate,
              startBlock |-> [sign |-> 1, digits |-> <<0>>]]
    /\ pc = "start"
    /\ rendered = None
    /\ rpcLog = <<>>
    /\ IdleSearch
    /\ IdleAgg
    /\ IdleClient
    /\ IdlePrices
    /\ IdleCalls
    /\ ledger \in JoinLedgers
    /\ IdleValuation
    /\ IdleBranches
    /\ IdleRuns
    /\ IdleMapping
    /\ IdleTimers
    /\ IdleFetches

AfterPageNoWait == "loop"

\* line 265 (line 310 of the stream): after page++ the loop awaits the
\* delay timer before its next turn
AfterPage == "delay"

SamePage(p) == p

\* line 264 (line 309 of the stream): page++
NextPage(p) == p + 1

PushInFront(list, transactions) == transactions \o list

\* line 255: allTransactions.push(...transactions)
push(list, transactions) == list \o transactions

GetTxContinuesAlways(pageNow, list) == TRUE

\* line 208: the loop condition
GetTxContinuesWith(pageNow, list) ==
    pageNow <= MAX_PAGES /\ Len(list) < MAX_TRANSACTION_LIMIT

GetTxContinues == GetTxContinuesWith(page, allTransactions)

\* lines 208-223: the loop is entered and the page request is sent
GetTxSendRequest ==
    /\ req.route = "transactions"
    /\ pc = "loop"
    /\ GetTxContinues
    /\ reqLog' = Append(reqLog, page)
    /\ pc' = "awaitPage"
    /\ UNCHANGED <<chainVars, client, priceVars, ledger, valuation, branches, otherVars, timers, fetches, total, envVars, req, rendered, rpcLog,
                   searchVars, page, allTransactions, respLog, result, events>>

\* lines 208, 268-269: the loop condition fails, the list is returned
GetTxLoopExit ==
    /\ req.route = "transactions"
    /\ pc = "loop"
    /\ ~GetTxContinues
    /\ result' = Fulfilled(allTransactions)
    /\ pc' = "settled"
    /\ UNCHANGED <<chainVars, client, priceVars, ledger, valuation, branches, otherVars, timers, fetches, total, envVars, req, rendered, rpcLog,
                   searchVars, page, allTransactions, reqLog, respLog, events>>

GetTxCatchRethrows(partial) == Rejected("Failed to fetch transactions")

GetTxCatchSwallows(partial) == Fulfilled(partial)

\* lines 271-278: the catch block
GetTxCatch(partial) ==
    IF Len(partial) > 0
    THEN Fulfilled(partial)
    ELSE Rejected("Failed to fetch transactions")

GetTxNoDataNever(message) == FALSE

\* line 226
GetTxIsNoData(message) == message = NoDataMessage

GetTxIsLastPageWhenEmpty(n) == n = 0

\* line 257
GetTxIsLastPage(n) == n < TRANSACTIONS_PER_PAGE

\* lines 225-262: the page request resolved with a response body
GetTxResponse ==
    /\ req.route = "transactions"
    /\ pc = "awaitPage"
    /\ \E body \in Bodies(page, TRANSACTIONS_PER_PAGE) :
          /\ respLog' = Append(respLog, LogEntry(body))
          /\ IF body.status # "1"
             THEN IF GetTxIsNoData(body.message)
                  THEN /\ result' = Fulfilled(allTransactions)
                       /\ pc' = "settled"
                       /\ UNCHANGED <<page, allTransactions>>
                  ELSE /\ result' = GetTxCatch(allTransactions)
                       /\ pc' = "settled"
                       /\ UNCHANGED <<page, allTransactions>>
             ELSE LET transactions == MapNormalize(body.result)
                  IN  /\ allTransactions' = push(allTransactions, transactions)
                      /\ IF GetTxIsLastPage(Len(transactions))
                         THEN /\ result' = Fulfilled(allTransactions')
                              /\ pc' = "settled"
                              /\ UNCHANGED page
                         ELSE /\ page' = NextPage(page)
                              /\ pc' = AfterPage
                              /\ UNCHANGED result
    /\ UNCHANGED <<chainVars, client, priceVars, ledger, valuation, branches, otherVars, timers, fetches, total, envVars, req, rendered, rpcLog,
                   searchVars, reqLog, events>>

\* lines 211, 271-278: the page request rejected (timeout, network, HTTP error)
GetTxTransportFails ==
    /\ req.route = "transactions"
    /\ pc = "awaitPage"
    /\ respLog' = Append(respLog, [kind |-> "transport", count |-> 0])
    /\ result' = GetTxCatch(allTransactions)
    /\ pc' = "settled"
    /\ UNCHANGED <<chainVars, client, priceVars, ledger, valuation, branches, otherVars, timers, fetches, total, envVars, req, rendered, rpcLog,
                   searchVars, page, allTransactions, reqLog, events>>

\* line 265: the API_DELAY timer fired
GetTxDelayElapsed ==
    /\ req.route = "transactions"
    /\ pc = "delay"
    /\ pc' = "loop"
    /\ timers' = Append(timers, API_DELAY)
    /\ UNCHANGED <<chainVars, client, priceVars, ledger, valuation, branches, otherVars, fetches, total, envVars, req, rendered, rpcLog,
                   searchVars, aggVars>>

\* the two other branches start with the aggregation (lines 301-305) and
\* have not been joined yet
JoinRunning ==
    /\ req.route = "transactions"
    /\ pc \in {"loop", "awaitPage", "delay", "settled"}

\* lines 170-189, 303: the promise of getEthPrice() settles; it never
\* rejects, the catch block answers the cached price
TransactionsPriceSettles ==
    /\ JoinRunning
    /\ branches.price.status = "pending"
    /\ LET eth == getEthPrice(ethPriceCache, clock, ledger.ethFeed)
       IN  /\ branches' = [branches EXCEPT
                             !.price = [status |-> "fulfilled",
                                        value |-> eth.value]]
           /\ ethPriceCache' = eth.cache
           /\ fetched' = IF eth.refreshed
                         THEN [fetched EXCEPT
                                 !.eth = Refresh(ledger.ethFeed.body, clock)]
                         ELSE fetched
    /\ UNCHANGED <<chainVars, client, tokenPriceCache, clock, calls, ledger,
                   valuation, otherVars, timers, fetches, total, envVars, req, pc, rendered,
                   rpcLog, searchVars, aggVars>>

\* lines 192-200, 304: the promise of getCurrentBalance(address) settles
TransactionsBalanceSettles ==
    /\ JoinRunning
    /\ branches.balance.status = "pending"
    /\ branches' = [branches EXCEPT
                      !.balance =
                          IF ledger.native.ok
                          THEN [status |-> "fulfilled",
                                value |-> formatEther(ledger.native.amount)]
                          ELSE [status |-> "rejected",
                                value |-> [units |-> 0, decimals |-> 0]]]
    /\ rpcLog' = Append(rpcLog, <<"getBalance", head>>)
    /\ UNCHANGED <<chainVars, client, priceVars, ledger, valuation, otherVars, timers, fetches,
                   total, envVars, req, pc, rendered, searchVars, aggVars>>

JoinFailedOnAnyBranch(results) ==
    \E i \in 1..Len(results) : results[i].status = "rejected"

\* line 314: the check for a failed critical operation
JoinFailed(results) == results[1].status = "rejected"

\* lines 301-331: Promise.allSettled resolved once the three branches have
\* settled, the response is rendered
TransactionsRender ==
    /\ req.route = "transactions"
    /\ pc = "settled"
    /\ branches.price.status # "pending"
    /\ branches.balance.status # "pending"
    /\ LET results == <<result, branches.price, branches.balance>>
           transactions ==
               IF results[1].status = "fulfilled" THEN results[1].value
               ELSE <<>>
           ethPrice ==
               IF results[2].status = "fulfilled" THEN results[2].value
               ELSE NullPrice
           hasBalance == results[3].status = "fulfilled"
           currentBalance == results[3].value
       IN  rendered' =
               IF JoinFailed(results)
               THEN ErrorPage("Failed to fetch transactions. Please try again later.")
               ELSE [view |-> "results", status |-> 200,
                     address |-> req.address,
                     startBlock |-> validateBlockNumber(req.startBlock,
                                                        head).value,
                     currentBlock |-> head,
                     transactions |-> transactions,
                     count |-> Len(transactions),
                     ethPrice |-> ethPrice,
                     currentBalance |-> [isNull |-> ~hasBalance,
                                         value |-> currentBalance],
                     balanceValue |->
                         IF Truthy(ethPrice) /\ hasBalance
                         THEN Fixed2(Times(parseFloat(currentBalance),
                                           ethPrice.usd))
                         ELSE Null,
                     errors |-> [priceError |->
                                     results[2].status = "rejected",
                                 balanceError |->
                                     results[3].status = "rejected"]]
    /\ pc' = "done"
    /\ UNCHANGED <<chainVars, client, priceVars, ledger, valuation, branches, otherVars, timers, fetches,
                   total, envVars, req, rpcLog, searchVars, aggVars>>


----------------------------------------------------------------------------
(* GET /transactions-stream/:address/:startBlock (incremental mode) *)

EnvPageSizes == {0, 3, 5, StreamRecordLimit + 1}

EnvApiDelays == {0, 100}

\* line 310: process.env.API_DELAY || 200
StreamDelay == IF envApiDelay = 0 THEN 200 ELSE envApiDelay

\* line 217: parseInt(process.env.TRANSACTIONS_PER_PAGE) || 1000
maxOffset == IF envPageSize = 0 THEN 1000 \div Scale ELSE envPageSize

\* line 218
maxPages == StreamRecordLimit \div maxOffset

InitStream ==
    /\ head = AggHead
    /\ timestamps = [h \in 0..AggHead |-> 0]
    /\ now = 0
    /\ total \in 0..MaxTotal
    /\ envPageSize \in EnvPageSizes
    /\ envApiDelay \in EnvApiDelays
    /\ req \in [route : {"transactions-stream"}, address : AddressInputs,
                  date : {NoDate}, startBlock : StartBlockInputs]
    /\ pc = "start"
    /\ rendered = None
    /\ rpcLog = <<>>
    /\ IdleSearch
    /\ IdleAgg
    /\ IdleClient
    /\ IdlePrices
    /\ IdleCalls
    /\ ledger = DefaultLedger
    /\ IdleValuation
    /\ IdleBranches
    /\ IdleRuns
    /\ IdleMapping
    /\ IdleTimers
    /\ IdleFetches

\* lines 314-320
CompleteEvent(pageNow, transactions) ==
    [type |-> "complete",
     totalTransactions |-> Len(transactions),
     totalPages |-> pageNow - 1,
     limitReached |-> pageNow > maxPages,
     maxPossibleTransactions |-> maxPages * maxOffset]

\* lines 261-264
WarningEvent(transactions) ==
    [type |-> "warning", shown |-> Len(transactions)]

\* lines 323-326
ErrorEvent(message) == [type |-> "error", error |-> message]

BatchEventCountsItself(transactions, pageNow, totalCount) ==
    [type |-> "transactions",
     transactions |-> transactions,
     page |-> pageNow,
     totalCount |-> Len(transactions),
     batchSize |-> Len(transactions),
     reachedLimit |-> pageNow >= maxPages,
     isLastPage |-> Len(transactions) < maxOffset]

\* lines 294-302
BatchEvent(transactions, pageNow, totalCount) ==
    [type |-> "transactions",
     transactions |-> transactions,
     page |-> pageNow,
     totalCount |-> totalCount,
     batchSize |-> Len(transactions),
     reachedLimit |-> pageNow >= maxPages,
     isLastPage |-> Len(transactions) < maxOffset]

\* lines 222-237: the initial event is written
StreamInitial ==
    /\ req.route = "transactions-stream"
    /\ pc = "initial"
    /\ events' = Append(events,
                        [type |-> "initial",
                         startBlock |->
                             validateBlockNumber(req.startBlock, head).value,
                         currentBlock |-> head,
                         maxPages |-> maxPages,
                         maxTransactions |-> maxPages * maxOffset])
    /\ pc' = "loop"
    /\ UNCHANGED <<chainVars, client, priceVars, ledger, valuation, branches, otherVars, timers, fetches, total, envVars, req, rendered, rpcLog,
                   searchVars, page, allTransactions, reqLog, respLog, result>>

StreamContinuesOnePageMore == page <= maxPages + 1

\* line 240: the loop condition
StreamContinues == page <= maxPages

\* lines 240-253: the loop is entered and the page request is sent
StreamSendRequest ==
    /\ req.route = "transactions-stream"
    /\ pc = "loop"
    /\ StreamContinues
    /\ reqLog' = Append(reqLog, page)
    /\ pc' = "awaitPage"
    /\ UNCHANGED <<chainVars, client, priceVars, ledger, valuation, branches, otherVars, timers, fetches, total, envVars, req, rendered, rpcLog,
                   searchVars, page, allTransactions, respLog, result, events>>

\* lines 240, 314-329: the loop condition fails, Complete is written
StreamLoopExit ==
    /\ req.route = "transactions-stream"
    /\ pc = "loop"
    /\ ~StreamContinues
    /\ events' = Append(events, CompleteEvent(page, allTransactions))
    /\ pc' = "ended"
    /\ UNCHANGED <<chainVars, client, priceVars, ledger, valuation, branches, otherVars, timers, fetches, total, envVars, req, rendered, rpcLog,
                   searchVars, page, allTransactions, reqLog, respLog, result>>

StreamNoDataNever(message) == FALSE

\* line 256
StreamIsNoData(message) == message = NoDataMessage

StreamWindowErrorNever(message) == FALSE

\* line 260: message.includes('Result window is too large')
StreamIsWindowError(message) == message = WindowMessage

StreamIsLastPageWhenEmpty(n) == n = 0

\* line 305
StreamIsLastPage(n) == n < maxOffset

\* lines 255-309, 314-329: the page request resolved with a response body
StreamResponse ==
    /\ req.route = "transactions-stream"
    /\ pc = "awaitPage"
    /\ \E body \in Bodies(page, maxOffset) :
          /\ respLog' = Append(respLog, LogEntry(body))
          /\ IF body.status # "1"
             THEN /\ UNCHANGED <<page, allTransactions>>
                  /\ pc' = "ended"
                  /\ IF StreamIsNoData(body.message)
                     THEN events' =
                              Append(events,
                                     CompleteEvent(page, allTransactions))
                     ELSE IF StreamIsWindowError(body.message)
                     THEN events' =
                              events \o <<WarningEvent(allTransactions),
                                          CompleteEvent(page, allTransactions)>>
                     ELSE events' =
                              Append(events,
                                     ErrorEvent(<<"Etherscan API error: ",
                                                  body.message>>))
             ELSE LET transactions == MapNormalize(body.result)
                      batch == BatchEvent(transactions, page,
                                          Len(allTransactions')) 
                  IN  /\ allTransactions' = allTransactions \o transactions
                      /\ IF StreamIsLastPage(Len(transactions))
                         THEN /\ events' =
                                     events \o <<batch,
                                                 CompleteEvent(page,
                                                     allTransactions')>>
                              /\ pc' = "ended"
                              /\ UNCHANGED page
                         ELSE /\ events' = Append(events, batch)
                              /\ page' = NextPage(page)
                              /\ pc' = AfterPage
    /\ UNCHANGED <<chainVars, client, priceVars, ledger, valuation, branches, otherVars, timers, fetches, total, envVars, req, rendered, rpcLog,
                   searchVars, reqLog, result>>

StreamTransportFailsThenCompletes ==
    /\ req.route = "transactions-stream"
    /\ pc = "awaitPage"
    /\ respLog' = Append(respLog, [kind |-> "transport", count |-> 0])
    /\ events' = events \o <<ErrorEvent(<<"transport", "">>),
                              CompleteEvent(page, allTransactions)>>
    /\ pc' = "ended"
    /\ UNCHANGED <<chainVars, client, priceVars, ledger, valuation, branches, otherVars, timers, fetches, total, envVars, req, rendered, rpcLog,
                   searchVars, page, allTransactions, reqLog, result>>

\* lines 241, 322-329: the page request rejected (timeout, network, HTTP error)
StreamTransportFails ==
    /\ req.route = "transactions-stream"
    /\ pc = "awaitPage"
    /\ respLog' = Append(respLog, [kind |-> "transport", count |-> 0])
    /\ events' = Append(events, ErrorEvent(<<"transport", "">>))
    /\ pc' = "ended"
    /\ UNCHANGED <<chainVars, client, priceVars, ledger, valuation, branches, otherVars, timers, fetches, total, envVars, req, rendered, rpcLog,
                   searchVars, page, allTransactions, reqLog, result>>

\* line 310: the delay timer fired
StreamDelayElapsed ==
    /\ req.route = "transactions-stream"
    /\ pc = "delay"
    /\ pc' = "loop"
    /\ timers' = Append(timers, StreamDelay)
    /\ UNCHANGED <<chainVars, client, priceVars, ledger, valuation, branches, otherVars, fetches, total, envVars, req, rendered, rpcLog,
                   searchVars, aggVars>>


\* the client closes the connection of the stream; the handler registers no
\* 'close' listener and never reads the state of the connection
ClientDisconnects ==
    /\ req.route = "transactions-stream"
    /\ pc \in {"initial", "loop", "awaitPage", "delay"}
    /\ client.connected
    /\ client' = [connected |-> FALSE, requestsAtClose |-> Len(reqLog)]
    /\ UNCHANGED <<chainVars, priceVars, ledger, valuation, branches, otherVars, timers, fetches, total, envVars, req, pc, rendered, rpcLog,
                   searchVars, aggVars>>

----------------------------------------------------------------------------
(* The server handles a request to one of the three routes *)

Init ==
    InitBalance \/ InitValuation \/ InitTransactions \/ InitJoin \/ InitStream

Next ==
    \/ BalanceValidate
    \/ BalanceGetBlockNumber
    \/ BalanceNodeCallFails
    \/ BalanceSearchCall
    \/ BalanceSearchStep
    \/ BalanceSearchExit
    \/ BalanceSettle
    \/ BalanceTokenBalances
    \/ BalanceRender
    \/ BalanceBlockDateFails
    \/ AggValidate
    \/ AggGetBlockNumber
    \/ AggGetBlockNumberFails
    \/ GetTxSendRequest
    \/ GetTxLoopExit
    \/ GetTxResponse
    \/ GetTxTransportFails
    \/ GetTxDelayElapsed
    \/ TransactionsPriceSettles
    \/ TransactionsBalanceSettles
    \/ TransactionsRender
    \/ StreamInitial
    \/ StreamSendRequest
    \/ StreamLoopExit
    \/ StreamResponse
    \/ StreamTransportFails
    \/ StreamDelayElapsed
    \/ ClientDisconnects

Spec == Init /\ [][Next]_vars

----------------------------------------------------------------------------
(* Concurrent reads of one price cache.  Each caller is one read of the    *)
(* cache, all through the same function; the event loop interleaves the    *)
(* reads at their await of the feed, and the clock advances between steps. *)

InitPrice ==
    /\ head = 0
    /\ timestamps = [h \in 0..0 |-> 0]
    /\ now = 0
    /\ total = 0
    /\ envPageSize = 0
    /\ envApiDelay = 0
    /\ req = [route |-> "none", address |-> "valid", date |-> NoDate,
              startBlock |-> NoStartBlock]
    /\ pc = "idle"
    /\ rendered = None
    /\ rpcLog = <<>>
    /\ IdleSearch
    /\ IdleAgg
    /\ IdleClient
    /\ IdlePrices
    /\ \E fn \in {"eth", "token"} : calls = [c \in Callers |-> IdleCall(fn)]
    /\ ledger = DefaultLedger
    /\ IdleValuation
    /\ IdleBranches
    /\ IdleRuns
    /\ IdleMapping
    /\ IdleTimers
    /\ IdleFetches

routeVars == <<chainVars, total, envPageSize, req, pc, rendered, rpcLog,
               searchVars, aggVars, client, ledger, valuation,
               branches, runs, mapping, envApiDelay, timers, fetches>>

\* the feed calls that have been sent and have not settled
InFlight == {c \in Callers : calls[c].pc = "awaitFeed"}

\* the part of a read up to its first await: the clock is read, the cache is
\* tested and either its value is returned or the feed is called
Enter(c, cache, last, fresh, cached) ==
    LET entered == [calls[c] EXCEPT !.now = clock, !.seen = cache,
                                    !.last = last,
                                    !.inFlight = Cardinality(InFlight)]
    IN  calls' = [calls EXCEPT ![c] =
                    IF fresh
                    THEN [entered EXCEPT !.pc = "returned",
                                         !.outcome = "returned",
                                         !.value = cached]
                    ELSE [entered EXCEPT !.pc = "awaitFeed",
                                         !.calledFeed = TRUE]]

\* the rest of a read: the feed call settled with `feed`
Leave(c, feed, settled, known) ==
    calls' = [calls EXCEPT ![c] =
                [@ EXCEPT !.pc = "returned", !.outcome = "returned",
                          !.feed = feed, !.known = known,
                          !.value = settled.value,
                          !.refreshed = settled.refreshed]]

\* lines 171-177
EthPriceRead(c) ==
    /\ calls[c].fn = "eth"
    /\ calls[c].pc = "idle"
    /\ Enter(c, ethPriceCache, fetched.eth,
             EthCacheIsFresh(ethPriceCache, clock), ethPriceCache.price)
    /\ UNCHANGED <<routeVars, ethPriceCache, tokenPriceCache, clock, fetched>>

\* lines 177-188
EthPriceFeedSettles(c) ==
    /\ calls[c].fn = "eth"
    /\ calls[c].pc = "awaitFeed"
    /\ \E feed \in EthFeedOutcomes :
          LET settled == EthPriceSettles(ethPriceCache, calls[c].now, feed)
          IN  /\ ethPriceCache' = settled.cache
              /\ Leave(c, feed, settled, fetched.eth)
              /\ fetched' = IF settled.refreshed
                            THEN [fetched EXCEPT
                                    !.eth = Refresh(feed.body, calls[c].now)]
                            ELSE fetched
    /\ UNCHANGED <<routeVars, tokenPriceCache, clock>>

\* lines 350-357
TokenPricesRead(c) ==
    /\ calls[c].fn = "token"
    /\ calls[c].pc = "idle"
    /\ Enter(c, tokenPriceCache, fetched.tokens,
             TokenCacheIsFresh(tokenPriceCache, clock), tokenPriceCache.prices)
    /\ UNCHANGED <<routeVars, ethPriceCache, tokenPriceCache, clock, fetched>>

\* lines 357-374
TokenPricesFeedSettles(c) ==
    /\ calls[c].fn = "token"
    /\ calls[c].pc = "awaitFeed"
    /\ \E feed \in TokenFeedOutcomes :
          LET settled == TokenPricesSettle(tokenPriceCache, calls[c].now, feed)
          IN  /\ tokenPriceCache' = settled.cache
              /\ Leave(c, feed, settled, fetched.tokens)
              /\ fetched' = IF settled.refreshed
                            THEN [fetched EXCEPT
                                    !.tokens = Refresh(feed.body, calls[c].now)]
                            ELSE fetched
    /\ UNCHANGED <<routeVars, ethPriceCache, clock>>

\* time passes
ClockTick ==
    /\ clock < ClockStart + MaxTicks * TickMs
    /\ clock' = clock + TickMs
    /\ UNCHANGED <<routeVars, ethPriceCache, tokenPriceCache, calls, fetched>>

NextPrice ==
    \/ \E c \in Callers : EthPriceRead(c)
    \/ \E c \in Callers : EthPriceFeedSettles(c)
    \/ \E c \in Callers : TokenPricesRead(c)
    \/ \E c \in Callers : TokenPricesFeedSettles(c)
    \/ ClockTick

SpecPrice == InitPrice /\ [][NextPrice]_vars

----------------------------------------------------------------------------
(* Repeated calls of getTransactions against a deterministic indexing API: *)
(* every page request is answered with the page of the fixed record set.   *)
(* The calls interleave at their awaits.                                   *)

\* the record counts of the range of the repeated call
RepeatTotals ==
    {0, 1, TRANSACTIONS_PER_PAGE, 2 * TRANSACTIONS_PER_PAGE + 1, MaxTotal}

InitRepeat ==
    /\ head = AggHead
    /\ timestamps = [h \in 0..AggHead |-> 0]
    /\ now = 0
    /\ total \in RepeatTotals
    /\ envPageSize = 0
    /\ envApiDelay = 0
    /\ req = [route |-> "none", address |-> "valid", date |-> NoDate,
              startBlock |-> NoStartBlock]
    /\ pc = "idle"
    /\ rendered = None
    /\ rpcLog = <<>>
    /\ IdleSearch
    /\ IdleAgg
    /\ IdleClient
    /\ IdlePrices
    /\ IdleCalls
    /\ ledger = DefaultLedger
    /\ IdleValuation
    /\ IdleBranches
    /\ IdleRuns
    /\ IdleMapping
    /\ IdleTimers
    /\ IdleFetches

serverVars == <<chainVars, total, envPageSize, req, pc, rendered, rpcLog,
                searchVars, aggVars, client, priceVars, ledger, valuation,
                branches, mapping, envApiDelay, timers, fetches>>

\* the variables of the routes and of the price caches
routesAndCaches == <<chainVars, total, envVars, req, pc, rendered, rpcLog,
                     searchVars, aggVars, client, priceVars, ledger,
                     valuation, branches, timers, fetches>>

\* the number of records in the range a call asks for
RangeTotal(r) ==
    IF r = "other" THEN (total + 1) % (MaxTotal + 1) ELSE total

RunLocalsShared(r) == "first"

\* lines 204-205: allTransactions and page are locals of the call
RunLocals(r) == r

Local(r) == runs.locals[RunLocals(r)]

\* the call r moves to `next` with its locals and its promise set
RunStep(r, next, locals, settled) ==
    runs' = [ctl |-> [runs.ctl EXCEPT ![r] = [pc |-> next, result |-> settled]],
             locals |-> [runs.locals EXCEPT ![RunLocals(r)] = locals]]

\* lines 203-205: getTransactions is called
RunCall(r) ==
    /\ runs.ctl[r].pc = "idle"
    /\ RunStep(r, "loop", [page |-> 1, allTransactions |-> <<>>],
               runs.ctl[r].result)
    /\ UNCHANGED serverVars

\* lines 208-223
RunSendRequest(r) ==
    /\ runs.ctl[r].pc = "loop"
    /\ GetTxContinuesWith(Local(r).page, Local(r).allTransactions)
    /\ RunStep(r, "awaitPage", Local(r), runs.ctl[r].result)
    /\ UNCHANGED serverVars

\* lines 208, 268-269
RunLoopExit(r) ==
    /\ runs.ctl[r].pc = "loop"
    /\ ~GetTxContinuesWith(Local(r).page, Local(r).allTransactions)
    /\ RunStep(r, "settled", Local(r), Fulfilled(Local(r).allTransactions))
    /\ UNCHANGED serverVars

\* lines 225-262
RunResponse(r) ==
    /\ runs.ctl[r].pc = "awaitPage"
    /\ LET body == PageBodyOf(RangeTotal(r), Local(r).page,
                              TRANSACTIONS_PER_PAGE)
           transactions == MapNormalize(body.result)
           list == push(Local(r).allTransactions, transactions)
       IN  IF body.status # "1"
           THEN IF GetTxIsNoData(body.message)
                THEN RunStep(r, "settled", Local(r),
                             Fulfilled(Local(r).allTransactions))
                ELSE RunStep(r, "settled", Local(r),
                             GetTxCatch(Local(r).allTransactions))
           ELSE IF GetTxIsLastPage(Len(transactions))
           THEN RunStep(r, "settled", [Local(r) EXCEPT !.allTransactions = list],
                        Fulfilled(list))
           ELSE RunStep(r, AfterPage,
                        [page |-> NextPage(Local(r).page), allTransactions |-> list],
                        runs.ctl[r].result)
    /\ UNCHANGED serverVars

\* line 265
RunDelayElapsed(r) ==
    /\ runs.ctl[r].pc = "delay"
    /\ RunStep(r, "loop", Local(r), runs.ctl[r].result)
    /\ UNCHANGED serverVars

NextRepeat ==
    \/ \E r \in Runs : RunCall(r)
    \/ \E r \in Runs : RunSendRequest(r)
    \/ \E r \in Runs : RunLoopExit(r)
    \/ \E r \in Runs : RunResponse(r)
    \/ \E r \in Runs : RunDelayElapsed(r)

SpecRepeat == InitRepeat /\ [][NextRepeat]_vars

----------------------------------------------------------------------------
(* The map callback of getTransactions applied to one raw record          *)

RECURSIVE Strip(_)
\* a decimal string without leading zeros
Strip(digits) ==
    IF Len(digits) > 1 /\ Head(digits) = 0 THEN Strip(Tail(digits))
    ELSE digits

\* n < 10^6 as six digits
Pad6(n) == [i \in 1..6 |-> (n \div 10 ^ (6 - i)) % 10]

WholeEthers == {0, 1, 2}

Millionths == {0, 1, 500000}

\* what follows the sixth decimal of an amount, as two groups of six digits
Beyond == {0, 499999, 500000} \X {0, 1, 999999}

\* tx.value: wei, as the API prints them
RawValues ==
    {Strip(Dec(w) \o Pad6(u) \o Pad6(b[1]) \o Pad6(b[2])) :
        w \in WholeEthers, u \in Millionths, b \in Beyond}

\* tx.gasPrice: wei, here tenths of a gwei
RawGasPrices == {Dec(t) \o [i \in 1..8 |-> 0] : t \in {10, 15, 30, 200}}

\* tx.gasUsed
RawGasUsed == {Dec(g) : g \in {500, 21000, 21500}}

RawAmounts ==
    [value : RawValues, gasPrice : RawGasPrices, gasUsed : RawGasUsed]

InitMap ==
    /\ head = AggHead
    /\ timestamps = [h \in 0..AggHead |-> 0]
    /\ now = 0
    /\ total = 0
    /\ envPageSize = 0
    /\ envApiDelay = 0
    /\ req = [route |-> "none", address |-> "valid", date |-> NoDate,
              startBlock |-> NoStartBlock]
    /\ pc = "idle"
    /\ rendered = None
    /\ rpcLog = <<>>
    /\ IdleSearch
    /\ IdleAgg
    /\ IdleClient
    /\ IdlePrices
    /\ IdleCalls
    /\ ledger = DefaultLedger
    /\ IdleValuation
    /\ IdleBranches
    /\ IdleRuns
    /\ IdleTimers
    /\ IdleFetches
    /\ \E tx \in RawAmounts : mapping = [pc |-> "called", tx |-> tx, out |-> <<>>]

\* lines 233-252: the callback returns the record made from tx
MapCallback ==
    /\ mapping.pc = "called"
    /\ mapping' = [pc |-> "returned", tx |-> mapping.tx,
                   out |-> Amounts(mapping.tx)]
    /\ UNCHANGED <<routesAndCaches, runs>>

NextMap == MapCallback

SpecMap == InitMap /\ [][NextMap]_vars

-----------------------------------------------------------------------------
(* The two aggregation modes side by side: the stream route serves a request
   while getTransactions is called for the same address and block range, both
   against the same indexing API and with the page size of the defaults. *)

InitBoth ==
    /\ InitStream
    /\ envPageSize = 0
    /\ envApiDelay = 0
    /\ req.address = "valid"
    /\ req.startBlock = [sign |-> 1, digits |-> <<0>>]

NextBoth ==
    \/ AggValidate
    \/ AggGetBlockNumber
    \/ AggGetBlockNumberFails
    \/ StreamInitial
    \/ StreamSendRequest
    \/ StreamLoopExit
    \/ StreamResponse
    \/ StreamTransportFails
    \/ StreamDelayElapsed
    \/ ClientDisconnects
    \/ RunCall("first")
    \/ RunSendRequest("first")
    \/ RunLoopExit("first")
    \/ RunResponse("first")
    \/ RunDelayElapsed("first")

SpecBoth == InitBoth /\ [][NextBoth]_vars

----------------------------------------------------------------------------
(* Resolver claims *)

HeightsAtOrAfter(t) == {h \in 0..head : timestamps[h] >= t}

\* C1: when some height has a timestamp >= the target, the search ends with
\* closestBlock equal to the smallest height whose timestamp is >= the target.
C1_SmallestHeightAtOrAfter ==
    (pc = "resolved" /\ HeightsAtOrAfter(targetTimestamp) # {})
        => /\ closestBlock \in HeightsAtOrAfter(targetTimestamp)
           /\ \A h \in HeightsAtOrAfter(targetTimestamp) : closestBlock <= h

C1_Witness ==
    /\ pc = "resolved"
    /\ head >= 3
    /\ timestamps[0] < targetTimestamp
    /\ HeightsAtOrAfter(targetTimestamp) # {}
    /\ closestBlock < head

\* C2 as stated: resolving the timestamp of any height h returns h itself.
C2_ExactTimestampReturnsThatHeight ==
    pc = "resolved"
        => \A h \in 0..head :
               timestamps[h] = targetTimestamp => closestBlock = h

\* C2 (amended): resolving the timestamp of height h returns the first height
\* carrying that timestamp, which is h itself whenever no lower height shares
\* the timestamp of h.
C2_ExactTimestampReturnsFirstHeight ==
    pc = "resolved"
        => \A h \in 0..head :
               timestamps[h] = targetTimestamp
                   => /\ timestamps[closestBlock] = timestamps[h]
                      /\ closestBlock <= h
                      /\ (\A g \in 0..(h - 1) : timestamps[g] # timestamps[h])
                             => closestBlock = h

C2_Witness ==
    /\ pc = "resolved"
    /\ head >= 2
    /\ closestBlock >= 1
    /\ timestamps[closestBlock] = targetTimestamp
    /\ timestamps[closestBlock - 1] < targetTimestamp

TieRun(t) ==
    {h \in HeightsAtOrAfter(t) :
        \A g \in HeightsAtOrAfter(t) : timestamps[h] <= timestamps[g]}

\* C3: when several heights share the timestamp that equals or first reaches
\* the target, the search converges to the lowest height of that run.
C3_TiesResolveToFirstHeight ==
    (pc = "resolved" /\ Cardinality(TieRun(targetTimestamp)) >= 2)
        => /\ closestBlock \in TieRun(targetTimestamp)
           /\ \A h \in TieRun(targetTimestamp) : closestBlock <= h

C3_Witness ==
    /\ pc = "resolved"
    /\ Cardinality(TieRun(targetTimestamp)) >= 3
    /\ closestBlock >= 1
    /\ timestamps[closestBlock] = targetTimestamp

\* C4: when every height has a timestamp below the target, the search returns
\* the chain head.
C4_NoBlockAtOrAfterReturnsHead ==
    (pc = "resolved" /\ HeightsAtOrAfter(targetTimestamp) = {})
        => closestBlock = head

C4_Witness ==
    /\ pc = "resolved"
    /\ head >= 2
    /\ HeightsAtOrAfter(targetTimestamp) = {}
    /\ closestBlock = head

NodeCalled == rpcLog # <<>>

BalanceRequest == req.route = "balance-at-date"

\* C5: no node call is made unless the address and the date were accepted,
\* every target that reaches the search comes from a date between the genesis
\* floor and now, and a rejected date ends in a validation error, no search.
C5_DateGatesResolver ==
    BalanceRequest =>
        /\ NodeCalled
               => /\ req.address = "valid"
                  /\ req.date.kind = "date"
                  /\ ethereumGenesis <= req.date.ms
                  /\ req.date.ms <= now
        /\ pc \in {"getBlockNumber", "search", "awaitBlock", "resolved"}
               => /\ req.date.kind = "date"
                  /\ ethereumGenesis <= req.date.ms
                  /\ req.date.ms <= now
                  /\ targetTimestamp = req.date.ms \div 1000
        /\ (pc # "start" /\ req.address = "valid"
                /\ (req.date.kind # "date" \/ req.date.ms < ethereumGenesis
                        \/ req.date.ms > now))
               => /\ pc = "done"
                  /\ rendered.view = "index"
                  /\ rendered.status = 200
                  /\ rendered.error \in
                         {"Date is required", "Invalid date format",
                          "Cannot check balance for future dates",
                          "Date cannot be before Ethereum genesis block"}
                  /\ ~NodeCalled

C5_Witness ==
    /\ BalanceRequest
    /\ pc = "done"
    /\ req.address = "valid"
    /\ req.date.kind = "date"
    /\ req.date.ms < ethereumGenesis
    /\ rendered.view = "index"
    /\ ~NodeCalled

C5_WitnessAccepted ==
    /\ pc = "resolved"
    /\ req.date.ms = ethereumGenesis

----------------------------------------------------------------------------
(* Aggregator claims *)

Buffered == req.route = "transactions"

Streamed == req.route = "transactions-stream"

PageSizeInUse == IF Streamed THEN maxOffset ELSE TRANSACTIONS_PER_PAGE

FailureKinds == {"window", "error", "transport"}

\* what the i-th record of the range must look like once normalised
ExpectedRecord(i) ==
    [hash |-> i, blockNumber |-> BlockOf(i), isError |-> ErrorFlagOf(i)]

ExpectedPrefix(n) == [i \in 1..n |-> ExpectedRecord(i)]

LastResponse == respLog[Len(respLog)]

LastEvent == events[Len(events)]

\* C6: in buffered mode, when the request for page k > 1 fails (API error or
\* transport failure) after pages 1..k-1 succeeded, getTransactions returns
\* exactly the normalised records of pages 1..k-1 in order: neither an empty
\* list nor an exception.
C6_PartialResultOnLaterPageFailure ==
    (/\ Buffered
     /\ pc \in {"settled", "done"}
     /\ Len(respLog) > 1
     /\ LastResponse.kind \in FailureKinds
     /\ \A j \in 1..(Len(respLog) - 1) : respLog[j].kind = "ok")
        => /\ result.status = "fulfilled"
           /\ result.value =
                  ExpectedPrefix((Len(respLog) - 1) * TRANSACTIONS_PER_PAGE)
           /\ result.value # <<>>
           /\ pc = "done"
                  => /\ rendered.view = "results"
                     /\ rendered.transactions = result.value

C6_Witness ==
    /\ Buffered
    /\ pc = "done"
    /\ Len(respLog) = 3
    /\ LastResponse.kind = "error"
    /\ Len(result.value) = 2 * TRANSACTIONS_PER_PAGE
    /\ rendered.view = "results"

\* C7: in buffered mode, when the first page request fails with anything but
\* the no-data signal, getTransactions throws and /transactions renders the
\* error page, not a results page with an empty list.
C7_FirstPageFailureFailsFast ==
    (/\ Buffered
     /\ pc \in {"settled", "done"}
     /\ Len(respLog) = 1
     /\ LastResponse.kind \in FailureKinds)
        => /\ result.status = "rejected"
           /\ pc = "done"
                  => rendered =
                         ErrorPage("Failed to fetch transactions. Please try again later.")

C7_Witness ==
    /\ Buffered
    /\ pc = "done"
    /\ Len(respLog) = 1
    /\ LastResponse.kind = "transport"
    /\ rendered.view = "index"

\* C8: a no-data answer stops the aggregation without error: it is the last
\* response, no page request follows it, and the records gathered so far
\* (possibly none) are the final result.
C8_NoDataStopsCleanly ==
    \A i \in DOMAIN respLog :
        respLog[i].kind = "nodata"
            => /\ i = Len(respLog)
               /\ reqLog = [j \in 1..i |-> j]
               /\ allTransactions = ExpectedPrefix((i - 1) * PageSizeInUse)
               /\ Buffered
                      => /\ pc \in {"settled", "done"}
                         /\ result = Fulfilled(allTransactions)
                         /\ pc = "done"
                                => /\ rendered.view = "results"
                                   /\ rendered.transactions = allTransactions
               /\ Streamed
                      => /\ pc = "ended"
                         /\ LastEvent.type = "complete"
                         /\ LastEvent.totalTransactions = Len(allTransactions)
                         /\ \A e \in DOMAIN events :
                                events[e].type \notin {"error", "warning"}

C8_Witness ==
    /\ Buffered
    /\ pc = "done"
    /\ Len(respLog) = 1
    /\ LastResponse.kind = "nodata"
    /\ rendered.view = "results"
    /\ rendered.transactions = <<>>

C8_WitnessStreamed ==
    /\ Streamed
    /\ pc = "ended"
    /\ Len(respLog) >= 3
    /\ LastResponse.kind = "nodata"
    /\ LastEvent.type = "complete"

\* C9: a page with fewer records than the page size is the last one: its
\* records are part of the result and no page request follows it.
C9_ShortPageIsLast ==
    \A i \in DOMAIN respLog :
        (respLog[i].kind = "ok" /\ respLog[i].count < PageSizeInUse)
            => /\ i = Len(respLog)
               /\ reqLog = [j \in 1..i |-> j]
               /\ allTransactions =
                      ExpectedPrefix((i - 1) * PageSizeInUse + respLog[i].count)
               /\ Buffered
                      => /\ pc \in {"settled", "done"}
                         /\ result = Fulfilled(allTransactions)
               /\ Streamed
                      => /\ pc = "ended"
                         /\ LastEvent.type = "complete"
                         /\ events[Len(events) - 1].type = "transactions"
                         /\ events[Len(events) - 1].transactions =
                                [k \in 1..respLog[i].count |->
                                     ExpectedRecord((i - 1) * PageSizeInUse + k)]

C9_Witness ==
    /\ Buffered
    /\ pc = "settled"
    /\ Len(respLog) >= 2
    /\ LastResponse.kind = "ok"
    /\ LastResponse.count >= 1
    /\ LastResponse.count < TRANSACTIONS_PER_PAGE
    /\ Len(result.value) = total

C9_WitnessStreamed ==
    /\ Streamed
    /\ pc = "ended"
    /\ Len(respLog) >= 2
    /\ LastResponse.kind = "ok"
    /\ LastResponse.count >= 1
    /\ LastResponse.count < maxOffset

\* records accumulated when only full pages arrive and the loop condition of
\* getTransactions ends the loop
BufferedCeiling ==
    Min(MAX_PAGES,
        (MAX_TRANSACTION_LIMIT + TRANSACTIONS_PER_PAGE - 1)
            \div TRANSACTIONS_PER_PAGE) * TRANSACTIONS_PER_PAGE

StreamedCeiling == maxPages * maxOffset

NoFailure == \A j \in DOMAIN respLog : respLog[j].kind = "ok"

\* C10: when the range holds more records than the ceiling, the aggregation
\* stops at the ceiling and yields a result that holds exactly ceiling records
\* and is flagged reachedLimit = true.
C10_TruncationIsFlagged ==
    /\ (Buffered /\ pc = "done" /\ NoFailure /\ total > BufferedCeiling)
           => /\ rendered.view = "results"
              /\ Len(rendered.transactions) = BufferedCeiling
              /\ "reachedLimit" \in DOMAIN rendered
              /\ rendered.reachedLimit = TRUE
    /\ (Streamed /\ pc = "ended" /\ NoFailure /\ total > StreamedCeiling)
           => /\ LastEvent.type = "complete"
              /\ LastEvent.totalTransactions = StreamedCeiling
              /\ LastEvent.limitReached = TRUE

\* the part of C10 that the incremental mode meets
C10_StreamedTruncationIsFlagged ==
    (Streamed /\ pc = "ended" /\ NoFailure /\ total > StreamedCeiling)
        => /\ LastEvent.type = "complete"
           /\ LastEvent.totalTransactions = StreamedCeiling
           /\ LastEvent.limitReached = TRUE
           /\ Len(allTransactions) = StreamedCeiling

\* the part of C10 that the buffered mode meets: the list stops at the ceiling
C10_BufferedStopsAtCeiling ==
    (Buffered /\ pc = "done" /\ NoFailure /\ total > BufferedCeiling)
        => /\ rendered.view = "results"
           /\ rendered.count = BufferedCeiling
           /\ rendered.transactions = ExpectedPrefix(BufferedCeiling)

C10_ReachedCeilingBuffered ==
    /\ Buffered
    /\ pc = "done"
    /\ NoFailure
    /\ total > BufferedCeiling
    /\ rendered.view = "results"

C10_ReachedCeilingStreamed ==
    /\ Streamed
    /\ pc = "ended"
    /\ NoFailure
    /\ total > StreamedCeiling
    /\ StreamedCeiling > 0
    /\ LastEvent.limitReached

----------------------------------------------------------------------------
(* Incremental mode claims *)

TypesOf(evs) == [k \in DOMAIN evs |-> evs[k].type]

IsBatch(e) == e.type = "transactions"

Batches == SelectSeq(events, IsBatch)

RECURSIVE ConcatTransactions(_)
ConcatTransactions(batches) ==
    IF batches = <<>> THEN <<>>
    ELSE Head(batches).transactions \o ConcatTransactions(Tail(batches))

CountOfType(t) == Cardinality({k \in DOMAIN events : events[k].type = t})

\* C11: when the API reports the page-depth error, the stream sends no further
\* page request, writes one Warning that tells how many records are shown,
\* keeps every record already delivered and ends with Complete, not Error.
C11_PageDepthWarnsAndCompletes ==
    Streamed =>
        \A i \in DOMAIN respLog :
            respLog[i].kind = "window"
                => /\ i = Len(respLog)
                   /\ reqLog = [j \in 1..i |-> j]
                   /\ pc = "ended"
                   /\ CountOfType("warning") = 1
                   /\ CountOfType("error") = 0
                   /\ events[Len(events) - 1].type = "warning"
                   /\ events[Len(events) - 1].shown = (i - 1) * maxOffset
                   /\ LastEvent.type = "complete"
                   /\ LastEvent.totalTransactions = (i - 1) * maxOffset
                   /\ Len(Batches) = i - 1
                   /\ ConcatTransactions(Batches)
                          = ExpectedPrefix((i - 1) * maxOffset)
                   /\ allTransactions = ExpectedPrefix((i - 1) * maxOffset)

C11_Witness ==
    /\ Streamed
    /\ pc = "ended"
    /\ Len(respLog) >= 3
    /\ LastResponse.kind = "window"
    /\ CountOfType("warning") = 1
    /\ LastEvent.type = "complete"

Rank(e) ==
    CASE e.type = "initial" -> 0
      [] e.type = "transactions" -> 1
      [] e.type = "warning" -> 2
      [] OTHER -> 3

Terminal(e) == e.type \in {"complete", "error"}

\* C12: the events of a validated stream are one Initial, then Batch events,
\* then at most one Warning with no Batch after it, then exactly one terminal
\* event (Complete or Error, never both) after which nothing is written.
C12_EventOrder ==
    Streamed =>
        /\ \A k \in DOMAIN events :
               /\ events[k].type = "initial" <=> k = 1
               /\ Terminal(events[k]) => k = Len(events)
               /\ k > 1 => Rank(events[k - 1]) <= Rank(events[k])
        /\ CountOfType("warning") <= 1
        /\ CountOfType("complete") + CountOfType("error") <= 1
        /\ pc \in {"loop", "awaitPage", "delay"}
               => /\ events # <<>>
                  /\ ~Terminal(LastEvent)
        /\ pc = "ended"
               => /\ Len(events) >= 2
                  /\ Terminal(LastEvent)
                  /\ CountOfType("complete") + CountOfType("error") = 1
        /\ pc \in {"start", "getBlockNumber", "initial", "done"}
               => events = <<>>

C12_Witness ==
    /\ Streamed
    /\ pc = "ended"
    /\ Len(events) >= 5
    /\ CountOfType("warning") = 1
    /\ CountOfType("transactions") >= 2

C12_WitnessError ==
    /\ Streamed
    /\ pc = "ended"
    /\ CountOfType("transactions") >= 2
    /\ LastEvent.type = "error"

\* the event loop runs every continuation that is ready, and every remote
\* call returns or fails (axios times out after REQUEST_TIMEOUT)
FairSpec == Spec /\ WF_vars(Next)

\* C13: every validated stream eventually writes its terminal event and ends
\* the response, and it sends at most maxPages page requests.
C13_StreamTerminates ==
    /\ [](Streamed => Len(reqLog) <= maxPages)
    /\ (Streamed /\ pc = "initial")
           ~> (pc = "ended" /\ events # <<>> /\ Terminal(LastEvent))

C13_Witness ==
    /\ Streamed
    /\ pc = "ended"
    /\ maxPages >= 4
    /\ Len(reqLog) = maxPages
    /\ LastEvent.type = "complete"

\* C14: once the client of a stream has disconnected, no further page request
\* is sent to the indexing API for that stream.
C14_NoRequestAfterDisconnect ==
    (Streamed /\ ~client.connected)
        => Len(reqLog) = client.requestsAtClose

C14_RequestsAfterDisconnect ==
    /\ Streamed
    /\ ~client.connected
    /\ pc = "ended"
    /\ Len(reqLog) >= client.requestsAtClose + 2

AddressRejected == req.address # "valid"

StartBlockRejected ==
    \/ req.startBlock.digits = <<>>
    \/ req.startBlock.sign * parseInt(req.startBlock.digits) < 0
    \/ req.startBlock.sign * parseInt(req.startBlock.digits) > head

\* C15: for a request whose address is malformed or whose start block is not
\* a number, negative or beyond the chain head, the indexing API is never
\* called and no stream event is written; a rejected address also precedes
\* the chain head lookup.
C15_ValidationGatesAggregation ==
    (req.route \in AggRoutes /\ (AddressRejected \/ StartBlockRejected))
        => /\ reqLog = <<>>
           /\ events = <<>>
           /\ allTransactions = <<>>
           /\ pc \in {"start", "getBlockNumber", "done"}
           /\ AddressRejected
                  => /\ rpcLog = <<>>
                     /\ pc \in {"start", "done"}
           /\ pc = "done"
                  => \/ /\ ~AddressRejected
                        /\ rendered = UnexpectedError
                     \/ /\ rendered.view = IF Streamed THEN "json" ELSE "index"
                        /\ rendered.status = IF Streamed THEN 400 ELSE 200
                        /\ rendered.error \in
                               IF AddressRejected
                               THEN {"Address is required",
                                     "Invalid Ethereum address format"}
                               ELSE {"Block number must be a valid number",
                                     "Block number cannot be negative",
                                     "Block number cannot be in the future"}

C15_Witness ==
    /\ Streamed
    /\ pc = "done"
    /\ ~AddressRejected
    /\ req.startBlock.sign * parseInt(req.startBlock.digits) > head
    /\ rendered = BadRequest("Block number cannot be in the future")
    /\ Len(rpcLog) = 1
    /\ reqLog = <<>>

C15_WitnessAddress ==
    /\ req.route \in AggRoutes
    /\ pc = "done"
    /\ AddressRejected
    /\ rpcLog = <<>>

----------------------------------------------------------------------------
(* Price cache claims *)

Started(c) == calls[c].pc # "idle"

Returned(c) == calls[c].pc = "returned"

\* the value a successful refresh stores, read off the body the feed sent:
\* the ether price, or per symbol its feed price and 0 when the body lacks it
FetchedValue(fn, body) ==
    IF fn = "eth"
    THEN [isNull |-> FALSE, usd |-> body.usd]
    ELSE [empty |-> FALSE,
          usd |-> [s \in Symbols |->
                      IF FeedId(s) \in body.ids THEN body.usd[FeedId(s)]
                      ELSE 0]]

NoValue(fn) == IF fn = "eth" THEN NullPrice ELSE EmptyPrices

\* the read of c was made inside the freshness window of the last
\* successful refresh, counted from the clock reading stored with it
InsideWindow(c) ==
    /\ calls[c].last.any
    /\ calls[c].now - calls[c].last.at < PRICE_CACHE_DURATION

\* C16: a read made less than PRICE_CACHE_DURATION (5 minutes) after the
\* last successful refresh returns the value that refresh stored and does
\* not call the feed; any other read calls the feed.  The age of a refresh
\* is counted from the clock reading its read took (the fetch timestamp).
C16_FreshnessWindow ==
    \A c \in Callers :
        Started(c) =>
            IF InsideWindow(c)
            THEN /\ ~calls[c].calledFeed
                 /\ Returned(c)
                 /\ calls[c].value
                        = FetchedValue(calls[c].fn, calls[c].last.body)
            ELSE calls[c].calledFeed

\* a read one tick before the end of the window is served from the cache
C16_Witness ==
    \E c \in Callers :
        /\ Returned(c)
        /\ ~calls[c].calledFeed
        /\ calls[c].now - calls[c].last.at = PRICE_CACHE_DURATION - TickMs

\* a read of a filled cache exactly at the end of the window calls the feed
C16_WitnessStale ==
    \E c \in Callers :
        /\ calls[c].calledFeed
        /\ calls[c].last.any
        /\ calls[c].now - calls[c].last.at = PRICE_CACHE_DURATION

\* the feed call of c settled without a usable answer
FeedFailed(c) ==
    /\ Returned(c)
    /\ calls[c].calledFeed
    /\ \/ ~calls[c].feed.arrived
       \/ calls[c].fn = "eth" /\ ~calls[c].feed.body.hasEthereum

C17_WitnessNone ==
    \E c \in Callers :
        /\ FeedFailed(c)
        /\ ~calls[c].known.any
        /\ calls[c].value = NoValue(calls[c].fn)

\* the step in which the token feed answers c with a body that lacks
\* exactly one tracked symbol
MissingOne(c) ==
    /\ calls[c].fn = "token"
    /\ calls[c].pc = "awaitFeed"
    /\ calls'[c].pc = "returned"
    /\ calls'[c].feed.arrived
    /\ Cardinality(FeedIds \ calls'[c].feed.body.ids) = 1

\* C18: when the body of the token feed lacks one tracked symbol the
\* refresh succeeds: the cache is replaced as a whole by a snapshot stamped
\* with the clock reading of the read, in which that symbol alone is 0 and
\* every other symbol has its feed price, and the read returns that
\* snapshot.
C18_MissingSymbolIsZero ==
    [][\A c \in Callers :
          MissingOne(c) =>
              LET body == calls'[c].feed.body
              IN  /\ calls'[c].refreshed
                  /\ tokenPriceCache'.timestamp = calls[c].now
                  /\ ~tokenPriceCache'.prices.empty
                  /\ \A s \in Symbols :
                        tokenPriceCache'.prices.usd[s] =
                            IF FeedId(s) \in body.ids
                            THEN body.usd[FeedId(s)]
                            ELSE 0
                  /\ calls'[c].value = tokenPriceCache'.prices]_vars

\* a refresh from a body without one symbol has replaced a filled cache
C18_Witness ==
    \E c \in Callers :
        /\ calls[c].fn = "token"
        /\ Returned(c)
        /\ calls[c].refreshed
        /\ Cardinality(FeedIds \ calls[c].feed.body.ids) = 1
        /\ ~calls[c].seen.prices.empty
        /\ tokenPriceCache.prices = calls[c].value
        /\ tokenPriceCache.prices # calls[c].seen.prices
        /\ \E s \in Symbols : /\ FeedId(s) \notin calls[c].feed.body.ids
                              /\ calls[c].value.usd[s] = 0
                              /\ \A t \in Symbols \ {s} : calls[c].value.usd[t] > 0

\* C19: at most one refresh call to the feed is in flight at a time, and a
\* read that starts while a refresh is in flight returns the snapshot it
\* found without calling the feed.
C19_SingleRefreshInFlight ==
    /\ Cardinality(InFlight) <= 1
    /\ \A c \in Callers :
          (Started(c) /\ calls[c].inFlight > 0) =>
              /\ ~calls[c].calledFeed
              /\ Returned(c)

\* two reads of a stale cache both wait for their own feed call
C19_TwoRefreshesInFlight == Cardinality(InFlight) >= 2

----------------------------------------------------------------------------
(* Valuation claims *)

\* the balance page has been rendered for the request
BalancePage ==
    BalanceRequest /\ pc = "done" /\ rendered.view = "balance"

Listed(symbol, list) == \E i \in 1..Len(list) : list[i].symbol = symbol

\* the tracked assets whose balance the node answered, by amount
AnsweredZero == {s \in Symbols : ledger.tokens[s].ok /\ ledger.tokens[s].amount = 0}

AnsweredPositive ==
    {s \in Symbols : ledger.tokens[s].ok /\ ledger.tokens[s].amount > 0}

\* C20: on the balance page every tracked asset whose balance at the
\* resolved block is 0 is absent from the asset list and every tracked
\* asset whose balance is > 0 is listed (once, with that balance); and once
\* the native balance has been read no zero asset balance fails the
\* valuation: the handler reaches the read of the block date with all five
\* entries computed, and ends on the balance page unless that last node
\* call rejects.
C20_ZeroBalancesAreFiltered ==
    /\ BalancePage =>
          /\ \A s \in AnsweredZero : ~Listed(s, rendered.tokenBalances)
          /\ \A s \in AnsweredPositive :
                \E i \in 1..Len(rendered.tokenBalances) :
                    /\ rendered.tokenBalances[i].symbol = s
                    /\ rendered.tokenBalances[i].balance.units
                           = ledger.tokens[s].amount
                    /\ \A j \in 1..Len(rendered.tokenBalances) :
                           rendered.tokenBalances[j].symbol = s => j = i
          /\ rendered.hasTokens = (rendered.tokenBalances # <<>>)
    /\ (BalanceRequest /\ ~valuation.ethBalance.isNull
           /\ pc \in {"blockDate", "done"}) =>
          /\ Len(valuation.tokenBalances) = Len(POPULAR_TOKENS)
          /\ pc = "done" =>
                \/ rendered.view = "balance"
                \/ /\ rendered = UnexpectedError
                   /\ rpcLog[Len(rpcLog)] = <<"getBlock", closestBlock>>

\* a page with a zero balance left out and a positive balance listed
C20_Witness ==
    /\ BalancePage
    /\ AnsweredZero # {}
    /\ AnsweredPositive # {}
    /\ Len(rendered.tokenBalances) = Cardinality(AnsweredPositive)

\* a page rendered although every tracked asset has balance 0
C20_WitnessAllZero ==
    /\ BalancePage
    /\ AnsweredZero = Symbols
    /\ rendered.tokenBalances = <<>>
    /\ ~rendered.hasTokens

\* the price of a tracked asset is unavailable to the request: the price
\* object is {} (the feed failed and nothing was cached) or the feed had no
\* price for the symbol
PriceUnavailable(symbol) ==
    valuation.tokenPrices.empty \/ valuation.tokenPrices.usd[symbol] = 0

\* C21: on the balance page a tracked asset with balance > 0 whose price is
\* unavailable is listed with its balance, and its entry carries no value:
\* the value fields are absent instead of holding zero.
C21_UnpricedAssetHasNoValue ==
    BalancePage =>
        \A s \in AnsweredPositive :
            PriceUnavailable(s) =>
                \E i \in 1..Len(rendered.tokenBalances) :
                    LET entry == rendered.tokenBalances[i]
                    IN  /\ entry.symbol = s
                        /\ entry.balance.units = ledger.tokens[s].amount
                        /\ "value" \notin DOMAIN entry
                        /\ "valueFormatted" \notin DOMAIN entry

\* an unpriced asset with a balance is listed with the value zero
C21_UnpricedAssetValuedZero ==
    /\ BalancePage
    /\ \E s \in AnsweredPositive :
          /\ PriceUnavailable(s)
          /\ \E i \in 1..Len(rendered.tokenBalances) :
                /\ rendered.tokenBalances[i].symbol = s
                /\ rendered.tokenBalances[i].balance.units > 0
                /\ rendered.tokenBalances[i].value = Zero
                /\ rendered.tokenBalances[i].valueFormatted = 0

\* C22: when the native price could not be obtained, the native value and
\* the total value given to the balance page are both absent (null).
C22_NoPriceNoValues ==
    (BalancePage /\ rendered.ethPrice.isNull) =>
        /\ rendered.ethBalanceValue.isNull
        /\ rendered.totalPortfolioValue.isNull

\* without a native price and without listed assets the page shows the
\* total 0.00, as it does for holdings confirmed to be worth nothing
C22_TotalShownWithoutPrice ==
    /\ BalancePage
    /\ rendered.ethPrice.isNull
    /\ rendered.ethBalanceValue.isNull
    /\ ~rendered.totalPortfolioValue.isNull
    /\ rendered.totalPortfolioValue.fixed = 0

\* the sum of the values of the entries of an asset list
RECURSIVE ListedValue(_)
ListedValue(list) ==
    IF list = <<>> THEN Zero
    ELSE [e \in Decimals |-> Head(list).value[e] + ListedValue(Tail(list))[e]]

\* the native value of the page, nothing when it is absent
NativeValue ==
    IF rendered.ethBalanceValue.isNull THEN Zero
    ELSE rendered.ethBalanceValue.value

\* C23: the total value of the balance page is the native value (nothing
\* when it is absent) plus the sum of the values of exactly the listed
\* assets, rounded to cents only after the sum is taken; the native value is
\* the native balance at the native price, and an asset that is not listed
\* contributes nothing.
C23_PortfolioTotal ==
    BalancePage =>
        LET sum == [e \in Decimals |->
                       NativeValue[e] + ListedValue(rendered.tokenBalances)[e]]
        IN  /\ rendered.totalPortfolioValue.value = sum
            /\ rendered.totalPortfolioValue.fixed
                   = sum[0] * 100 + (sum[6] + 5000) \div 10000
            /\ ~rendered.ethBalanceValue.isNull =>
                   NativeValue[18] = ledger.native.amount * rendered.ethPrice.usd
            /\ \A i \in 1..Len(rendered.tokenBalances) :
                   LET entry == rendered.tokenBalances[i]
                   IN  entry.value[entry.decimals]
                          = ledger.tokens[entry.symbol].amount * entry.price

\* a page whose total has a native part and an asset part, and whose total
\* rounds to a cent although each listed value rounds to 0.00
C23_Witness ==
    /\ BalancePage
    /\ ~rendered.ethBalanceValue.isNull
    /\ Positive(NativeValue)
    /\ Len(rendered.tokenBalances) >= 2
    /\ Len(rendered.tokenBalances) < Len(POPULAR_TOKENS)
    /\ \A i \in 1..Len(rendered.tokenBalances) :
          rendered.tokenBalances[i].valueFormatted = 0
    /\ rendered.totalPortfolioValue.fixed = 1

----------------------------------------------------------------------------
(* Join and aggregation claims *)

\* the handler of /transactions has joined its three branches and answered
Joined == Buffered /\ pc = "done" /\ result.status # "pending"

\* the price branch came back without a price, the balance branch rejected
PriceBranchFailed ==
    branches.price.status = "fulfilled" /\ branches.price.value.isNull

BalanceBranchFailed == branches.balance.status = "rejected"

TransactionsErrorPage ==
    ErrorPage("Failed to fetch transactions. Please try again later.")

\* C24: when /transactions answers after the join, each of the three
\* branches has settled; if the transaction branch fulfilled, the results
\* page is rendered with exactly its records, whether or not the price or
\* the balance branch failed (the page then has no price, no balance and
\* no balance value); and the error page is rendered exactly when the
\* transaction branch rejected.  While a sibling has failed the
\* transaction branch keeps its state and goes on.
C24_BestEffortJoin ==
    /\ Joined =>
          /\ branches.price.status # "pending"
          /\ branches.balance.status # "pending"
          /\ (rendered = TransactionsErrorPage) = (result.status = "rejected")
          /\ result.status = "fulfilled" =>
                /\ rendered.view = "results"
                /\ rendered.transactions = result.value
                /\ rendered.transactions = allTransactions
                /\ rendered.ethPrice = branches.price.value
                /\ rendered.currentBalance.isNull = BalanceBranchFailed
                /\ (PriceBranchFailed \/ BalanceBranchFailed) =>
                       rendered.balanceValue.isNull
    /\ (Buffered /\ pc \in {"loop", "awaitPage", "delay"}) =>
          result.status = "pending"

\* the results page with records, rendered although both siblings failed
C24_Witness ==
    /\ Joined
    /\ PriceBranchFailed
    /\ BalanceBranchFailed
    /\ rendered.view = "results"
    /\ Len(rendered.transactions) > TRANSACTIONS_PER_PAGE

\* the aggregation requests its second page after both siblings failed
C24_WitnessStillRunning ==
    /\ Buffered
    /\ pc = "awaitPage"
    /\ Len(reqLog) = 2
    /\ PriceBranchFailed
    /\ BalanceBranchFailed

\* the error page, with both siblings fulfilled
C24_WitnessErrorPage ==
    /\ Joined
    /\ rendered = TransactionsErrorPage
    /\ ~PriceBranchFailed
    /\ ~BalanceBranchFailed

Settled(r) == runs.ctl[r].pc = "settled"

\* C25: against the deterministic indexing API two calls of getTransactions
\* with the same address and block range settle alike and return the same
\* record sequence, however their steps and the steps of a call for another
\* range interleave: the first min(total, ceiling) records of the range.
C25_RepeatedCallsAgree ==
    /\ (Settled("first") /\ Settled("second")) =>
          runs.ctl["first"].result = runs.ctl["second"].result
    /\ \A r \in {"first", "second"} :
          Settled(r) =>
              /\ runs.ctl[r].result.status = "fulfilled"
              /\ runs.ctl[r].result.value
                     = ExpectedPrefix(Min(total, BufferedCeiling))

\* both calls returned several pages of records, after the other call had
\* accumulated different records between their steps
C25_Witness ==
    /\ Settled("first")
    /\ Settled("second")
    /\ Settled("other")
    /\ Len(runs.ctl["first"].result.value) > TRANSACTIONS_PER_PAGE
    /\ runs.ctl["other"].result.value # runs.ctl["first"].result.value

\* the second call is made while the first one waits for its second page
C25_WitnessInterleaved ==
    /\ runs.ctl["first"].pc = "awaitPage"
    /\ runs.locals["first"].page = 2
    /\ runs.ctl["second"].pc = "awaitPage"
    /\ runs.locals["second"].page = 1
    /\ runs.ctl["other"].pc = "delay"

\* the pages of the range the API has answered with records so far
OkPages == {i \in 1..Len(respLog) : respLog[i].kind = "ok"}

RECURSIVE PagesInOrder(_)
\* the normalised records of pages 1..n, page after page
PagesInOrder(n) ==
    IF n = 0 THEN <<>>
    ELSE PagesInOrder(n - 1)
            \o [k \in 1..respLog[n].count |->
                    ExpectedRecord((n - 1) * TRANSACTIONS_PER_PAGE + k)]

\* C26: the list the buffered aggregation accumulates and the results view
\* shows is the concatenation, in page order, of the normalised records of
\* the pages fetched: one record per raw record, in the order the API
\* returned them, so in strictly descending block order; and the count given
\* to the view is the length of that list.
C26_ResultOrderAndCount ==
    Buffered =>
        /\ (OkPages # {} /\ pc \in {"loop", "delay", "awaitPage", "settled"}) =>
               /\ OkPages = 1..Cardinality(OkPages)
               /\ allTransactions = PagesInOrder(Cardinality(OkPages))
        /\ (result.status = "fulfilled") =>
               result.value = PagesInOrder(Cardinality(OkPages))
        /\ (pc = "done" /\ rendered.view = "results") =>
               /\ rendered.transactions = PagesInOrder(Cardinality(OkPages))
               /\ rendered.count = Len(rendered.transactions)
               /\ \A i, j \in 1..Len(rendered.transactions) :
                      i < j => /\ rendered.transactions[i].hash
                                      = RawRecord(i).hash
                               /\ rendered.transactions[i].blockNumber
                                      > rendered.transactions[j].blockNumber

\* the results view lists three pages of records, the last one short
C26_Witness ==
    /\ Buffered
    /\ pc = "done"
    /\ rendered.view = "results"
    /\ Cardinality(OkPages) = 3
    /\ rendered.count = 2 * TRANSACTIONS_PER_PAGE + 1

----------------------------------------------------------------------------
(* Record normalisation claims *)

Mapped == mapping.pc = "returned"

\* n is p / q in millionths, rounded half away from zero
IsRounded(n, p, q) ==
    LET twice == BigAdd(BigMul(Double(p), <<0, 100>>), q)
        below == BigMul(Double(q), n)
    IN  /\ ~BigLess(twice, below)
        /\ BigLess(twice, BigAdd(below, Double(q)))

\* n is one of the millionths nearest to p / q
IsNearest(n, p, q) ==
    LET exact == BigMul(Double(p), <<0, 100>>)
        shown == BigMul(Double(q), n)
    IN  /\ ~BigLess(BigAdd(shown, q), exact)
        /\ ~BigLess(BigAdd(exact, q), shown)

\* gas price (wei) x gas used, the fee in wei
FeeInWei(tx) == BigMul(BigInt(tx.gasPrice), BigInt(tx.gasUsed))

\* C27: the formatted amount of a record is its raw value scaled down by
\* 10^18 and rounded to 6 decimals (half away from zero), and its fee is
\* gas price in gwei x gas used scaled down by 10^9 and rounded to 6
\* decimals.
C27_RecordNormalization ==
    Mapped =>
        /\ IsRounded(mapping.out.valueFormatted, BigInt(mapping.tx.value),
                     WeiPerEther)
        /\ IsRounded(mapping.out.transactionFee, FeeInWei(mapping.tx),
                     WeiPerEther)

\* the formatted amount is a nearest millionth, whichever way ties go
C27_AmountIsNearest ==
    Mapped => IsNearest(mapping.out.valueFormatted, BigInt(mapping.tx.value),
                        WeiPerEther)

\* raw value 1500000000000000000 formats to 1.500000, and gas price 20 gwei
\* with gas used 21000 to 0.000420
C27_Examples ==
    Mapped =>
        /\ (mapping.tx.value = Dec(15) \o [i \in 1..17 |-> 0]) =>
               mapping.out.valueFormatted = BigInt(Dec(1500000))
        /\ (mapping.tx.gasPrice = Dec(20) \o [i \in 1..9 |-> 0]
              /\ mapping.tx.gasUsed = Dec(21000)) =>
               mapping.out.transactionFee = Big(420)

\* the two examples have been mapped
C27_ExamplesMapped ==
    /\ Mapped
    /\ mapping.tx.value = Dec(15) \o [i \in 1..17 |-> 0]
    /\ mapping.tx.gasPrice = Dec(20) \o [i \in 1..9 |-> 0]
    /\ mapping.tx.gasUsed = Dec(21000)

\* 1000000499999999999 wei, below the tie, are shown as 1.000001
C27_AmountRoundedTheWrongWay ==
    /\ Mapped
    /\ mapping.tx.value = Dec(1000000) \o Dec(499999) \o Dec(999999)
    /\ mapping.out.valueFormatted = BigInt(Dec(1000001))

\* 1.5 gwei x 21000, a fee of 0.0000315, is shown as 0.000031
C27_FeeTieRoundedDown ==
    /\ Mapped
    /\ mapping.tx.gasPrice = Dec(15) \o [i \in 1..8 |-> 0]
    /\ mapping.tx.gasUsed = Dec(21000)
    /\ mapping.out.transactionFee = Big(31)

----------------------------------------------------------------------------
(* Paging claims *)

Aggregating == Buffered \/ Streamed

\* C28: within one aggregation, buffered or streamed, the page requests
\* carry the page numbers 1, 2, 3, ... in that order, so no page number is
\* requested twice; a request is outstanding only while the aggregation
\* awaits its response, so page k + 1 is requested only after the response
\* to page k has been processed; and after a response that is not a page of
\* records (a failure or the end of data) no further request is made.
C28_SequentialPagingNoRetry ==
    Aggregating =>
        /\ reqLog = [i \in 1..Len(reqLog) |-> i]
        /\ Len(reqLog) =
               Len(respLog) + (IF pc = "awaitPage" THEN 1 ELSE 0)
        /\ \A i \in 1..Len(respLog) :
               respLog[i].kind # "ok" => Len(reqLog) = i

\* the buffered aggregation failed on its third page and settled
C28_Witness ==
    /\ Buffered
    /\ reqLog = <<1, 2, 3>>
    /\ Len(respLog) = 3
    /\ respLog[3].kind \in FailureKinds
    /\ pc \in {"settled", "done"}

\* the streamed aggregation failed on its third page and ended the stream
C28_WitnessStreamed ==
    /\ Streamed
    /\ reqLog = <<1, 2, 3>>
    /\ Len(respLog) = 3
    /\ respLog[3].kind \in FailureKinds
    /\ pc = "ended"

\* the delay step configured for the aggregation (ms)
ConfiguredDelay ==
    IF Buffered THEN 250
    ELSE IF envApiDelay = 0 THEN 200 ELSE envApiDelay

\* C29: between two successive page requests of one aggregation the
\* configured delay step (250 ms buffered; 200 ms streamed unless the
\* environment sets another) elapses, after the response to the earlier
\* page has been processed: request k + 1 is issued only when k delays have
\* elapsed, a delay starts only after a response, and while the delay is
\* pending no request is outstanding.
C29_InterPageDelay ==
    Aggregating =>
        /\ Len(reqLog) <= Len(timers) + 1
        /\ Len(timers) <= Len(respLog)
        /\ \A i \in 1..Len(timers) :
               /\ timers[i] = ConfiguredDelay
               /\ respLog[i].kind = "ok"
        /\ (pc = "delay") =>
               /\ Len(timers) + 1 = Len(respLog)
               /\ Len(reqLog) = Len(respLog)

\* the buffered aggregation requests its third page, after two delays
C29_Witness ==
    /\ Buffered
    /\ pc = "awaitPage"
    /\ reqLog = <<1, 2, 3>>
    /\ timers = <<250, 250>>

\* the streamed aggregation requests its third page, after two delays of
\* the default step
C29_WitnessStreamed ==
    /\ Streamed
    /\ pc = "awaitPage"
    /\ reqLog = <<1, 2, 3>>
    /\ timers = <<200, 200>>

\* the delay of a page is pending: its response has been processed and the
\* next page has not been requested
C29_WitnessPending ==
    /\ Aggregating
    /\ pc = "delay"
    /\ Len(reqLog) = 2
    /\ Len(timers) = 1

----------------------------------------------------------------------------
(* Resolver cost *)

RECURSIVE Log2Floor(_)
\* floor(log2(n)), for n >= 1
Log2Floor(n) == IF n < 2 THEN 0 ELSE 1 + Log2Floor(n \div 2)

\* the getBlock calls of the search made so far
BlockFetches ==
    Cardinality({i \in 1..Len(rpcLog) : rpcLog[i][1] = "getBlock"})

InSearch == BalanceRequest /\ pc \in {"search", "awaitBlock"}

\* C30: for every chain head the binary search terminates; it makes exactly
\* one getBlock call per loop iteration and at most
\* floor(log2(head + 1)) + 1 of them; and it never has two block fetches
\* outstanding.
C30_ResolverCost ==
    /\ [](fetches.outstanding <= 1)
    /\ []((InSearch \/ (BalanceRequest /\ pc = "resolved")) =>
              /\ BlockFetches = fetches.iterations + fetches.outstanding
              /\ BlockFetches <= Log2Floor(head + 1) + 1)
    /\ (InSearch ~> ~InSearch)

\* a search over the longest chain that needed every fetch of the bound
C30_Witness ==
    /\ BalanceRequest
    /\ pc = "resolved"
    /\ head = MaxHead
    /\ fetches.iterations = Log2Floor(MaxHead + 1) + 1
    /\ BlockFetches = fetches.iterations

\* a block fetch is outstanding after an iteration has completed
C30_WitnessOutstanding ==
    /\ InSearch
    /\ fetches.outstanding = 1
    /\ fetches.iterations >= 1

----------------------------------------------------------------------------
(* Zero native balance *)

\* the native balance read was made and answered 0
NativeBalanceReadZero ==
    /\ BalanceRequest
    /\ \E i \in 1..Len(rpcLog) : rpcLog[i][1] = "getBalance"
    /\ ledger.native.ok
    /\ ledger.native.amount = 0

BalanceFailurePage == ErrorPage("Failed to fetch balance at specified date")

\* C31: when the native balance read at the resolved block succeeds with
\* the value 0, /balance-at-date does not render the 'Failed to fetch
\* balance at specified date' error: the handler goes on to the snapshot.
C31_ZeroBalanceIsNoFailure ==
    NativeBalanceReadZero =>
        /\ rendered # BalanceFailurePage
        /\ pc # "done" \/ rendered.view = "balance"

\* a balance of 0 that the node answered is reported as a failed read
C31_ZeroBalanceReportedAsFailure ==
    /\ NativeBalanceReadZero
    /\ pc = "done"
    /\ rendered = BalanceFailurePage

----------------------------------------------------------------------------
(* Stream summary claims *)

Completed == Streamed /\ events # <<>> /\ LastEvent.type = "complete"

\* C32: the Complete event's totalPages equals the number of Batch events
\* written to the stream, however the page loop ended.
C32_CompleteCountsBatches ==
    Completed => LastEvent.totalPages = Len(Batches)

\* the loop ended on a short page: that page was delivered in a Batch and is
\* not counted
C32_ShortPageNotCounted ==
    /\ Completed
    /\ Len(Batches) = 2
    /\ Batches[2].isLastPage
    /\ LastEvent.totalPages = 1

\* totalPages counts the Batch events when the loop ends on the no-data
\* signal, the page-depth warning or the page ceiling
C32_CountedOtherwise ==
    (Completed /\ (Batches = <<>> \/ ~Batches[Len(Batches)].isLastPage)) =>
        LastEvent.totalPages = Len(Batches)

RECURSIVE SumBatchSizes(_)
SumBatchSizes(batches) ==
    IF batches = <<>> THEN 0
    ELSE Head(batches).batchSize + SumBatchSizes(Tail(batches))

\* C33: the Batch events of a stream carry the page numbers 1, 2, 3, ...,
\* each with as many records as its batchSize and with totalCount equal to
\* the sum of batchSize up to and including it; the records accumulated are
\* at every moment the records delivered in the Batch events, and Complete
\* reports the sum of batchSize over all of them as totalTransactions.
C33_StreamCounters ==
    Streamed =>
        /\ \A k \in 1..Len(Batches) :
               /\ Batches[k].page = k
               /\ Batches[k].batchSize = Len(Batches[k].transactions)
               /\ Batches[k].totalCount
                      = SumBatchSizes(SubSeq(Batches, 1, k))
        /\ allTransactions = ConcatTransactions(Batches)
        /\ Completed =>
               LastEvent.totalTransactions = SumBatchSizes(Batches)

\* a stream of three Batch events, the last one short, has completed
C33_Witness ==
    /\ Completed
    /\ Len(Batches) = 3
    /\ Batches[3].batchSize < Batches[2].batchSize
    /\ LastEvent.totalTransactions > 2 * maxOffset

\* a stream ended with Error after two Batch events
C33_WitnessError ==
    /\ Streamed
    /\ pc = "ended"
    /\ LastEvent.type = "error"
    /\ Len(Batches) = 2

----------------------------------------------------------------------------
(* Ceilings *)

\* the page ceiling of the aggregation: 10 pages buffered, the record
\* ceiling divided by the page size streamed
PageCeiling ==
    IF Buffered THEN 10 ELSE (10000 \div Scale) \div PageSizeInUse

\* C34: in every state of an aggregation the number of page requests issued
\* is at most the page ceiling and the number of records accumulated is at
\* most the record ceiling (10000, scaled with the page size).
C34_Ceilings ==
    Aggregating =>
        /\ Len(reqLog) <= PageCeiling
        /\ Len(allTransactions) <= 10000 \div Scale
        /\ \A i \in 1..Len(respLog) : respLog[i].count <= PageSizeInUse

\* the buffered aggregation stopped at both ceilings with records left
C34_Witness ==
    /\ Buffered
    /\ pc \in {"settled", "done"}
    /\ Len(reqLog) = 10
    /\ Len(allTransactions) = 10000 \div Scale
    /\ total > Len(allTransactions)

\* the streamed aggregation stopped at its page ceiling with records left
C34_WitnessStreamed ==
    /\ Streamed
    /\ pc = "ended"
    /\ envPageSize = 3
    /\ Len(reqLog) = PageCeiling
    /\ total > Len(allTransactions)

-----------------------------------------------------------------------------
(* The two modes agree *)

BufferedResult == runs.ctl["first"].result

BothFinished == Streamed /\ pc = "ended" /\ Settled("first")

\* C35: with the default page size (1000 records a page, 10 pages in both
\* modes) and responses that are only successful pages and the no-data answer,
\* the concatenation of the stream's batches is the record sequence that
\* getTransactions returns for the same address and range.
C35_ModesAgree ==
    (BothFinished /\ NoFailure /\ envPageSize = 0 /\ maxPages = MAX_PAGES) =>
        /\ BufferedResult.status = "fulfilled"
        /\ ConcatTransactions(Batches) = BufferedResult.value

\* both modes went through all ten pages and stopped with records left over
C35_Witness ==
    /\ BothFinished
    /\ NoFailure
    /\ envPageSize = 0
    /\ maxPages = MAX_PAGES
    /\ total > BufferedCeiling
    /\ Len(Batches) = MAX_PAGES
    /\ Len(BufferedResult.value) = MAX_TRANSACTION_LIMIT
    /\ ConcatTransactions(Batches) = BufferedResult.value

\* both modes ended on a short page after a full one
C35_WitnessShortPage ==
    /\ BothFinished
    /\ NoFailure
    /\ Len(Batches) = 2
    /\ Len(BufferedResult.value) = TRANSACTIONS_PER_PAGE + 1
    /\ ConcatTransactions(Batches) = BufferedResult.value

-----------------------------------------------------------------------------
(* The price caches under concurrent refreshes *)

\* C36: when several concurrent reads each refresh the same price cache, the
\* fetch timestamp stored in the cache never decreases: no step replaces a
\* snapshot by one that is stamped with an earlier time.
C36_TimestampNeverDecreases ==
    [][/\ ethPriceCache'.timestamp >= ethPriceCache.timestamp
       /\ tokenPriceCache'.timestamp >= tokenPriceCache.timestamp]_vars

\* a read that started before the cached snapshot was stamped is still
\* waiting for the feed
C36_EarlierReadInFlight ==
    \E c \in InFlight :
        \/ calls[c].fn = "eth" /\ calls[c].now < ethPriceCache.timestamp
        \/ calls[c].fn = "token" /\ calls[c].now < tokenPriceCache.timestamp

\* the cache that the read c goes through
CacheOf(c) == IF calls[c].fn = "eth" THEN ethPriceCache ELSE tokenPriceCache

\* a read made now would return the cached value without calling the feed
CacheIsFresh(c) ==
    IF calls[c].fn = "eth" THEN EthCacheIsFresh(ethPriceCache, clock)
    ELSE TokenCacheIsFresh(tokenPriceCache, clock)

C37_WitnessNoField ==
    \E c \in Callers :
        /\ FeedFailed(c)
        /\ calls[c].fn = "eth"
        /\ calls[c].feed.arrived
        /\ calls[c].last.any
        /\ ethPriceCache = calls[c].seen

-----------------------------------------------------------------------------
(* The error flags of the views *)

\* the price feed did not answer the request of this route with a price
EthFetchFailed ==
    ~ledger.ethFeed.arrived \/ EthBodyThrows(ledger.ethFeed.body)

TokenFetchFailed == ~ledger.tokenFeed.arrived

\* C38: errors.priceError and errors.tokenPriceError of a rendered view are
\* true exactly when the fetch of the ether price, or of the token prices,
\* failed during the request, and false when it succeeded.
C38_FlagsTellFailedFetch ==
    /\ (pc = "done" /\ rendered.view = "balance") =>
          /\ rendered.errors.priceError = EthFetchFailed
          /\ rendered.errors.tokenPriceError = TokenFetchFailed
    /\ (pc = "done" /\ rendered.view = "results") =>
          rendered.errors.priceError = EthFetchFailed

\* the flags are false in every view, whatever the feed did
C38_FlagsAlwaysFalse ==
    /\ (pc = "done" /\ rendered.view = "balance") =>
          /\ ~rendered.errors.priceError
          /\ ~rendered.errors.tokenPriceError
    /\ (pc = "done" /\ rendered.view = "results") =>
          ~rendered.errors.priceError

\* both fetches failed and the balance view was rendered
C38_BothFetchesFailed ==
    /\ pc = "done"
    /\ rendered.view = "balance"
    /\ EthFetchFailed
    /\ TokenFetchFailed
    /\ ~Truthy(rendered.ethPrice)

-----------------------------------------------------------------------------
(* A failed read of an asset balance *)

\* the tracked assets whose contract call rejected
ReadFailed == {s \in Symbols : ~ledger.tokens[s].ok}

\* the symbols of the tracked assets that the node answered with a positive
\* balance, in the order of POPULAR_TOKENS
RECURSIVE OwnedFrom(_)
OwnedFrom(i) ==
    IF i > Len(POPULAR_TOKENS) THEN <<>>
    ELSE IF POPULAR_TOKENS[i].symbol \in AnsweredPositive
    THEN <<POPULAR_TOKENS[i].symbol>> \o OwnedFrom(i + 1)
    ELSE OwnedFrom(i + 1)

\* the value of the answered balances at the prices of the request
RECURSIVE OwnedValueFrom(_)
OwnedValueFrom(i) ==
    IF i > Len(POPULAR_TOKENS) THEN Zero
    ELSE LET token == POPULAR_TOKENS[i]
             rest == OwnedValueFrom(i + 1)
         IN  IF token.symbol \in AnsweredPositive
             THEN [e \in Decimals |->
                      rest[e] + IF e = token.decimals
                                THEN ledger.tokens[token.symbol].amount
                                        * valuation.tokenPrices.usd[token.symbol]
                                ELSE 0]
             ELSE rest

\* C39: when the contract call for a tracked asset fails, its balance is '0'
\* and its value nothing; the asset is left out of the balance page as an
\* asset with a confirmed zero balance is; and the page lists exactly the
\* assets answered with a positive balance, in order, each with its balance,
\* price and value, and totals the native value and their values: the failed
\* read changes neither the other assets nor whether the page is rendered.
C39_FailedReadIsZero ==
    /\ (BalanceRequest /\ valuation.tokenBalances # <<>>) =>
          \A i \in 1..Len(valuation.tokenBalances) :
              valuation.tokenBalances[i].symbol \in ReadFailed =>
                  /\ valuation.tokenBalances[i].balance = [units |-> 0, decimals |-> 0]
                  /\ valuation.tokenBalances[i].value = Zero
    /\ BalancePage =>
          /\ \A s \in ReadFailed \cup AnsweredZero :
                ~Listed(s, rendered.tokenBalances)
          /\ [i \in 1..Len(rendered.tokenBalances) |->
                 rendered.tokenBalances[i].symbol] = OwnedFrom(1)
          /\ \A i \in 1..Len(rendered.tokenBalances) :
                LET entry == rendered.tokenBalances[i]
                IN  /\ entry.balance.units = ledger.tokens[entry.symbol].amount
                    /\ entry.price = valuation.tokenPrices.usd[entry.symbol]
          /\ rendered.totalPortfolioValue.value
                 = [e \in Decimals |-> NativeValue[e] + OwnedValueFrom(1)[e]]
    /\ (BalanceRequest /\ ~valuation.ethBalance.isNull
           /\ pc \in {"blockDate", "done"}) =>
          /\ Len(valuation.tokenBalances) = Len(POPULAR_TOKENS)
          /\ (pc = "done" /\ rendered.view # "balance") =>
                rpcLog[Len(rpcLog)] = <<"getBlock", closestBlock>>

\* one read failed, one asset has a confirmed zero balance, and the page
\* lists the others with a total that is not zero
C39_Witness ==
    /\ BalancePage
    /\ ReadFailed # {}
    /\ AnsweredZero # {}
    /\ Len(rendered.tokenBalances) = Cardinality(AnsweredPositive)
    /\ Len(rendered.tokenBalances) >= 2
    /\ Positive(OwnedValueFrom(1))

\* every read failed and the page is rendered with no asset
C39_WitnessAllFailed ==
    /\ BalancePage
    /\ ReadFailed = Symbols
    /\ rendered.tokenBalances = <<>>

====
